---- MODULE Spec2Model ----
(***************************************************************************)
(* A model of the Skydrift island-configuration search: the simulated      *)
(* annealing of IslandConfigSearch (src/src/utils/sim.ts), the per-phase   *)
(* fan-out coordinator (src/unnamed/part_000) and the full-search fan-out  *)
(* coordinator (src/scripts/search-island-config.js).                      *)
(***************************************************************************)
EXTENDS Integers, Sequences, FiniteSets, TLC

(***************************************************************************)
(* Bounds of the model.                                                    *)
(***************************************************************************)
MaxScore == 3            \* scores of evaluateConfig are drawn from 0..MaxScore
MaxPeriod == 4           \* largest absolute period bound of the sample bounds
NumInitialConfigs == 2   \* annealingParams.numInitialConfigs
IterationsPerTemp == 2   \* annealingParams.iterationsPerTemp
InitialTemperature == 4  \* annealingParams.initialTemperature
MinTemperature == 1      \* annealingParams.minTemperature
NumWorkers == 3         \* --workers of the per-phase coordinator
FullNumWorkers == 2     \* --workers of the full-search coordinator
TotalPhases == 2        \* config.islandsToConfigure.length
WorkerIterations == 1   \* configurations one worker evaluates in one run
MaxFaults == 1          \* worker runs that throw plus worker threads that die
MaxGap == 3             \* average gaps and target gaps are drawn from 1..MaxGap
MaxTargets == 2         \* conjunctionTargets.length is at most this
MaxCount == 16          \* the counters of the loop-control model stop counting here
MaxDays == 3            \* simulationDays and timeStepDays are drawn from 1..MaxDays
MaxWorkerScore == 1     \* scores of the workers' results are drawn from 0..MaxWorkerScore

\* annealingParams.coolingRate as the exact fraction <<numerator, denominator>>
CoolingRate == <<1, 2>>

VARIABLES
    \* ---- IslandConfigSearch (one optimizeIsland run) ----
    epicycleBounds,      \* this.epicycleBounds
    fixedIslands,        \* this.fixedIslands
    pc,                  \* position in optimizeIsland
    i,                   \* loop index of the running for loop
    temperature,         \* the local temperature, an exact fraction <<n, d>>
    currentConfig,       \* currentConfig (Island[])
    currentResult,       \* currentResult (its score; its islands are currentConfig)
    bestStartingConfig,  \* bestStartingConfig
    bestStartingResult,  \* bestStartingResult (its islands are bestStartingConfig)
    searchBest,          \* this.bestResult
    bestIslands,         \* this.bestResult.islands
    currentIteration,    \* this.currentIteration
    reported,            \* scores handed to progressCallback, in call order
    returned,            \* the value optimizeIsland returned
    evaluated,           \* islands of the configuration evaluated last
    returnedIslands,     \* islands of the result optimizeIsland returned
    evaluations,         \* number of calls of evaluateConfig in the run
    evalScores,          \* the scores those calls returned
    cancelChecks,        \* number of calls of shouldCancel
    cancelSeen,          \* shouldCancel has returned true
    initialScores,       \* the scores of the random configurations, in order
    initialSearchIndex,  \* initialSearchIndex
    neighborScore,       \* neighborResult.score of the last annealing step, if any
    acceptanceProbability, \* acceptanceProbability of that step, a fraction <<n, d>>
    randomDraw           \* the Math.random() it was compared with, a fraction

\* what a run reads and where it stands
runVars == <<epicycleBounds, fixedIslands, pc, i, temperature>>
\* the islands of the configurations and results of a run
configVars == <<currentConfig, bestStartingConfig, bestIslands, evaluated,
                returnedIslands>>
\* the scores of the results of a run, and what the callbacks saw
\* the initial search and the last annealing step in detail
stepVars == <<initialScores, initialSearchIndex, neighborScore, acceptanceProbability,
              randomDraw>>
scoreVars == <<currentResult, bestStartingResult, searchBest, currentIteration,
               reported, returned, evaluations, evalScores, cancelChecks, cancelSeen,
               stepVars>>
searchVars == <<runVars, configVars, scoreVars>>

VARIABLES
    \* ---- the worker threads of a coordinator script ----
    wstate,              \* "loading", "idle" (in the event loop), "optimizing", "dead"
    wShouldExit,         \* runWorker's shouldExit
    inbox,               \* messages posted to the worker and not yet handled by it
    wphase,              \* params.phase of the worker's run
    wbest,               \* score of the best-so-far result of the worker's run
    witer,               \* configurations evaluated in the worker's run
    toMain,              \* messages and events of the worker the main thread has not handled
    faults,              \* worker runs that threw plus worker threads that died
    \* ---- the main thread of a coordinator script ----
    workersReady,        \* workersReady
    workersRunning,      \* workersRunning
    currentPhase,        \* currentPhase
    phaseResults,        \* phaseResults, a Map in insertion order
    allConfiguredIslands,\* allConfiguredIslands
    bestResult,          \* bestResult
    shouldExit,          \* shouldExit of searchIslandConfig
    sigintHandled,       \* sigintHandled
    exited,              \* "running", or why the process has exited
    outputFile,          \* what has been written to outputPath
    delivered,           \* workers whose final result of the current phase was handled
    selected,            \* what the last completePhase chose among
    \* ---- the main thread of the full-search coordinator only ----
    workersCompleted,    \* workersCompleted
    currentPhases,       \* currentPhases, a Map of workerId -> phase
    workerResults        \* workerResults, a Map of workerId -> result

workerVars == <<wstate, wShouldExit, inbox, wphase, wbest, witer, toMain, faults>>
mainVars == <<workersReady, workersRunning, currentPhase, phaseResults,
              allConfiguredIslands, bestResult, shouldExit, sigintHandled, exited,
              outputFile, delivered, selected>>
fullVars == <<workersCompleted, currentPhases, workerResults>>
coordVars == <<workerVars, mainVars, fullVars>>

VARIABLES
    \* ---- the loop control of optimizeIsland under any cooling rate ----
    coolingRate,         \* this.annealingParams.coolingRate, an exact fraction <<n, d>>
    levels               \* temperature levels completed

coolVars == <<coolingRate, levels>>

VARIABLES
    \* ---- the scoring of evaluateConfig ----
    conjunctionTargets,  \* this.conjunctionTargets
    stats,               \* what analyzeConjunctions returned, pair key -> ConjunctionStats
    scored               \* totalScore and errors once the scoring loop has run

scoringVars == <<conjunctionTargets, stats, scored>>

VARIABLES
    \* ---- searchIncremental ----
    allIslands,          \* this.islandsToConfigure of the search that runs the phases
    incPhase,            \* phase, the loop variable of the phase loop
    currentIslands,      \* currentIslands
    relevantTargets,     \* the conjunctionTargets handed to the latest phase's search
    phaseErrors,         \* errorDetails.errors of the latest phase's result
    incPc,               \* "running", "cancelled" or "returned"
    incResult            \* <<>> until searchIncremental returns, then <<its result>>

incVars == <<allIslands, incPhase, currentIslands, relevantTargets, phaseErrors, incPc,
             incResult>>

VARIABLES
    \* ---- ConjunctionAnalyzer.analyzeConjunctions ----
    analyzerIslands,     \* this.islands
    motion,              \* the conjunctions the islands' motion has, whenever looked for
    simulationDays,      \* params.simulationDays
    timeStepDays,        \* params.timeStepDays
    startTimeMs,         \* params.startTimeMs || 0
    analysis,            \* the Map analyzeConjunctions returned
    analyzerPc           \* "called" or "returned"

analyzerVars == <<analyzerIslands, motion, simulationDays, timeStepDays, startTimeMs,
                  analysis, analyzerPc>>

VARIABLES
    \* ---- timeFormat.ts: formatTime and parseTimeString ----
    timestamp,           \* the time handed to formatTime, in hours (1000 / 24 units each)
    formatted,           \* the string formatTime returned, a sequence of characters
    parsed,              \* what parseTimeString made of it: null or <<hours>>
    calendarPc           \* "idle", "start", "formatted" or "parsed"

calendarVars == <<timestamp, formatted, parsed, calendarPc>>

VARIABLES
    \* ---- sim.ts: the island list of SkydriftArchipelagoSimulator ----
    simIslands,          \* this.islands
    simCall              \* the last call: its name, the id it was about, the list before it

simulatorVars == <<simIslands, simCall>>

VARIABLES
    \* ---- sim.ts: findMinimumDistanceTime ----
    argStart,            \* startTime of the outermost call
    argEnd,              \* endTime of the outermost call
    argPrecision,        \* precision, a fraction <<n, d>>
    distanceProfile,     \* the distance of the two islands as a function of time
    callStart,           \* startTime of the innermost call
    callEnd,             \* endTime of the innermost call
    callDepth,           \* calls on the stack below the innermost
    minTime,             \* the time returned
    minPc                \* "idle", "searching", "returned" or "overflow"

minimumVars == <<argStart, argEnd, argPrecision, distanceProfile, callStart, callEnd,
                 callDepth, minTime, minPc>>

\* the variables of the utilities
utilVars == <<calendarVars, simulatorVars, minimumVars>>

\* the variables of the models of single functions
extraVars == <<incVars, analyzerVars, utilVars>>

\* the variables neither an optimizeIsland run nor a coordinator script touches
moreVars == <<coolVars, scoringVars, extraVars>>

vars == <<searchVars, coordVars, moreVars>>

(***************************************************************************)
(* Small helpers.                                                          *)
(***************************************************************************)
Abs(x) == IF x < 0 THEN -x ELSE x
Sign(x) == IF x > 0 THEN 1 ELSE IF x < 0 THEN -1 ELSE 0
Max2(a, b) == IF a >= b THEN a ELSE b
Min2(a, b) == IF a <= b THEN a ELSE b
\* x < y for fractions <<numerator, denominator>> with positive denominators
RatLess(x, y) == x[1] * y[2] < y[1] * x[2]
\* Math.floor and Math.ceil of the fraction a / b, for a >= 0 and b > 0
FloorDiv(a, b) == a \div b
CeilDiv(a, b) == (a + b - 1) \div b
SetMin(S) == CHOOSE x \in S : \A y \in S : x <= y
Last(s) == s[Len(s)]

\* An absent optional value is the empty set, a present one a singleton.
Undefined == {}
Some(x) == {x}
Defined(o) == o # {}
The(o) == CHOOSE x \in o : TRUE

NoResult == [score |-> -1]

(***************************************************************************)
(* The search parameters: base island, island to configure, sample bounds. *)
(***************************************************************************)
baseIsland == [id |-> 0, cycles |-> <<3>>]
islandsToConfigure == <<[id |-> 2, cycles |-> <<>>]>>

Bounds(minP, maxP, minProp, maxProp, neg) ==
    [minPeriod |-> minP, maxPeriod |-> maxP, minProportion |-> minProp,
     maxProportion |-> maxProp, allowNegative |-> neg]

\* level 0 absolute, level 1 proportional to level 0
ProportionalBounds ==
    << Bounds(Some(MaxPeriod - 2), Some(MaxPeriod), Undefined, Undefined, FALSE),
       Bounds(Undefined, Undefined, Some(<<1, 2>>), Some(<<1, 1>>), FALSE) >>
\* both levels absolute, the second may rotate either way
AbsoluteBounds ==
    << Bounds(Some(MaxPeriod - 1), Some(MaxPeriod), Undefined, Undefined, FALSE),
       Bounds(Some(1), Some(2), Undefined, Undefined, TRUE) >>
\* level 1 names no minimum at all
MalformedBounds ==
    << Bounds(Some(MaxPeriod - 1), Some(MaxPeriod), Undefined, Undefined, FALSE),
       Bounds(Undefined, Some(2), Undefined, Undefined, FALSE) >>

\* both levels absolute, level 0 from a minimum of 0
ZeroMinBounds ==
    << Bounds(Some(0), Some(1), Undefined, Undefined, FALSE),
       Bounds(Some(1), Some(2), Undefined, Undefined, FALSE) >>
\* level 0 from a minimum of 0, level 1 proportional to it
ZeroParentBounds ==
    << Bounds(Some(0), Some(1), Undefined, Undefined, FALSE),
       Bounds(Undefined, Undefined, Some(<<1, 2>>), Some(<<1, 1>>), FALSE) >>

\* level 0 proportional, where there is no parent
RootProportionalBounds ==
    << Bounds(Undefined, Some(MaxPeriod), Some(<<1, 2>>), Undefined, FALSE),
       Bounds(Some(1), Some(2), Undefined, Undefined, FALSE) >>

BoundsChoices ==
    {ProportionalBounds, AbsoluteBounds, MalformedBounds, ZeroMinBounds, ZeroParentBounds,
     RootProportionalBounds}
FixedChoices == {<<>>, <<[id |-> 1, cycles |-> <<2>>]>>}

(***************************************************************************)
(* Period bounds of level j (1-based here, index j-1 in the source) given  *)
(* the cycles of the island; shared by generateRandomIslandConfig and      *)
(* perturbConfig, which repeat the same computation.                       *)
(***************************************************************************)
ParentPeriod(cycles, j) == Abs(cycles[j - 1])

\* the conditions under which the source throws
BoundsThrow(b, cycles, j) ==
    \/ Defined(b.minProportion) /\ (j = 1 \/ ParentPeriod(cycles, j) = 0)
    \/ ~Defined(b.minProportion) /\ ~Defined(b.minPeriod)
    \/ Defined(b.maxProportion) /\ (j = 1 \/ ParentPeriod(cycles, j) = 0)
    \/ ~Defined(b.maxProportion) /\ ~Defined(b.maxPeriod)

\* Math.ceil of the larger of minPeriod and minProportion * parentPeriod
ActualMinPeriod(b, cycles, j) ==
    LET prop == IF Defined(b.minProportion)
                THEN Some(CeilDiv(The(b.minProportion)[1] * ParentPeriod(cycles, j),
                                  The(b.minProportion)[2]))
                ELSE Undefined
    IN  IF Defined(b.minPeriod)
        THEN IF Defined(prop) THEN Max2(The(b.minPeriod), The(prop)) ELSE The(b.minPeriod)
        ELSE The(prop)

\* Math.floor of the smaller of maxPeriod and maxProportion * parentPeriod
RoundedMaxPeriod(b, cycles, j) ==
    LET prop == IF Defined(b.maxProportion)
                THEN Some(FloorDiv(The(b.maxProportion)[1] * ParentPeriod(cycles, j),
                                   The(b.maxProportion)[2]))
                ELSE Undefined
    IN  IF Defined(b.maxPeriod)
        THEN IF Defined(prop) THEN Min2(The(b.maxPeriod), The(prop)) ELSE The(b.maxPeriod)
        ELSE The(prop)

\* the maximum after "if (actualMinPeriod > actualMaxPeriod) actualMaxPeriod = actualMinPeriod"
ActualMaxPeriod(b, cycles, j) ==
    Max2(ActualMinPeriod(b, cycles, j), RoundedMaxPeriod(b, cycles, j))

(***************************************************************************)
(* generateRandomIslandConfig: the cycles it can push, level by level.     *)
(* An outcome is [ok, cycles]; ok = FALSE stands for a thrown Error.       *)
(***************************************************************************)
Thrown == [ok |-> FALSE, cycles |-> <<>>]

\* Math.floor(min + Math.random() * (max - min + 1)), then the optional sign flip
RandomPeriods(b, cycles, j) ==
    LET mags == ActualMinPeriod(b, cycles, j) .. ActualMaxPeriod(b, cycles, j)
    IN  mags \cup (IF b.allowNegative THEN {-m : m \in mags} ELSE {})

RECURSIVE GenerateCycles(_, _)
GenerateCycles(bs, cycles) ==
    IF Len(cycles) = Len(bs)
    THEN {[ok |-> TRUE, cycles |-> cycles]}
    ELSE LET j == Len(cycles) + 1
         IN  IF BoundsThrow(bs[j], cycles, j)
             THEN {Thrown}
             ELSE UNION {GenerateCycles(bs, Append(cycles, p)) :
                           p \in RandomPeriods(bs[j], cycles, j)}

generateRandomIslandConfig(bs, islandBase) ==
    {[ok |-> o.ok, island |-> [islandBase EXCEPT !.cycles = o.cycles]] :
        o \in GenerateCycles(bs, <<>>)}

\* base island, then the fixed islands, then the island being configured
generateRandomConfig(bs, fixed) ==
    IF Len(islandsToConfigure) > 0
    THEN {[ok |-> g.ok, islands |-> <<baseIsland>> \o fixed \o <<g.island>>] :
            g \in generateRandomIslandConfig(bs, islandsToConfigure[1])}
    ELSE {[ok |-> TRUE, islands |-> <<baseIsland>> \o fixed]}

(***************************************************************************)
(* perturbConfig: each level of the last island is perturbed or left, in   *)
(* index order, a perturbed level reading the (possibly already changed)   *)
(* parent level.  temp is the temperature as a fraction <<n, d>>.          *)
(***************************************************************************)
\* Math.max(1, Math.floor((max - min) * 0.2 * (temperature / initialTemperature)))
MaxIntegerPerturbation(lo, hi, temp) ==
    Max2(1, FloorDiv((hi - lo) * temp[1], 5 * temp[2] * InitialTemperature))

PerturbedPeriods(b, cycles, j, temp) ==
    LET lo == ActualMinPeriod(b, cycles, j)
        hi == ActualMaxPeriod(b, cycles, j)
        m == MaxIntegerPerturbation(lo, hi, temp)
        currentSign == Sign(cycles[j])
        news == {Max2(lo, Min2(hi, Abs(cycles[j]) + d)) : d \in (-m) .. m}
    IN  {currentSign * n : n \in news}
          \cup (IF b.allowNegative THEN {(-currentSign) * n : n \in news} ELSE {})

RECURSIVE PerturbCycles(_, _, _, _)
PerturbCycles(bs, cycles, j, temp) ==
    IF j > Len(cycles)
    THEN {[ok |-> TRUE, cycles |-> cycles]}
    ELSE \* Math.random() >= 0.5 * (temperature / initialTemperature): level left alone
         PerturbCycles(bs, cycles, j + 1, temp)
         \cup
         \* level perturbed
         (IF BoundsThrow(bs[j], cycles, j)
          THEN {Thrown}
          ELSE UNION {PerturbCycles(bs, [cycles EXCEPT ![j] = p], j + 1, temp) :
                        p \in PerturbedPeriods(bs[j], cycles, j, temp)})

\* JSON.parse(JSON.stringify(islands)): a new array of new islands; an integer
\* period is written and read back as the same number
JsonNumber(p) == p
JsonCopy(islands) ==
    [k \in 1 .. Len(islands) |->
        [id |-> JsonNumber(islands[k].id),
         cycles |-> [j \in 1 .. Len(islands[k].cycles) |->
                        JsonNumber(islands[k].cycles[j])]]]

\* the same pass over the levels, on the second island of the array
PerturbSecondIsland(bs, islands, temp) ==
    IF Len(islands) > 1
    THEN {[ok |-> o.ok,
           input |-> islands,
           islands |-> IF o.ok
                       THEN [JsonCopy(islands) EXCEPT ![2].cycles = o.cycles]
                       ELSE islands] :
            o \in PerturbCycles(bs, islands[2].cycles, 1, temp)}
    ELSE {[ok |-> TRUE, input |-> islands, islands |-> JsonCopy(islands)]}

\* input is the argument array as the call leaves it, islands the array returned
perturbConfig(bs, islands, temp) ==
    LET newIslands == JsonCopy(islands)
    IN  IF Len(newIslands) > 1
        THEN {[ok |-> o.ok,
               input |-> islands,
               islands |-> IF o.ok
                           THEN [newIslands EXCEPT ![Len(newIslands)].cycles = o.cycles]
                           ELSE islands] :
                o \in PerturbCycles(bs, Last(newIslands).cycles, 1, temp)}
        ELSE {[ok |-> TRUE, input |-> islands, islands |-> newIslands]}

(***************************************************************************)
(* evaluateConfig: the score depends on a start time drawn at random on    *)
(* every call, so the same configuration can score differently each time.  *)
(***************************************************************************)
Scores == 0 .. MaxScore
evaluateConfig == {[score |-> s] : s \in Scores}

(***************************************************************************)
(* The coordinator scripts: workers, results and the state no run of       *)
(* optimizeIsland alone touches.                                           *)
(***************************************************************************)
Workers == 0 .. NumWorkers - 1
WorkerScores == 0 .. MaxWorkerScore
NoScore == -1
\* a ConfigSearchResult as the coordinators see it: the phase whose island is the
\* last of result.islands, and result.score
PhaseResult(phase, score) == [phase |-> phase, score |-> score]
NoPhaseResult == PhaseResult(0, NoScore)
NotWritten == <<"not written">>

\* a JavaScript Map as the sequence of its entries in insertion order
MapHas(m, k) == \E n \in 1 .. Len(m) : m[n].key = k
MapIndex(m, k) == CHOOSE n \in 1 .. Len(m) : m[n].key = k
MapGet(m, k) == IF MapHas(m, k) THEN m[MapIndex(m, k)].value ELSE NoPhaseResult
MapSet(m, k, v) ==
    IF MapHas(m, k)
    THEN [m EXCEPT ![MapIndex(m, k)].value = v]
    ELSE Append(m, [key |-> k, value |-> v])

\* the state of the loop-control variables in the specifications that fix the cooling rate
CoolIdle ==
    /\ coolingRate = CoolingRate
    /\ levels = 0

\* the state of the scoring variables in the specifications that score nothing
ScoringIdle ==
    /\ conjunctionTargets = <<>>
    /\ stats = <<>>
    /\ scored = <<>>

\* the state of the variables of moreVars in the specifications that leave them alone
\* the state of searchIncremental's variables where it is not run
IncIdle ==
    /\ allIslands = <<>>
    /\ incPhase = 0
    /\ currentIslands = <<>>
    /\ relevantTargets = <<>>
    /\ phaseErrors = <<>>
    /\ incPc = "idle"
    /\ incResult = <<>>

\* the state of the analyzer's variables where it is not run
AnalyzerIdle ==
    /\ analyzerIslands = <<>>
    /\ motion = {}
    /\ simulationDays = 0
    /\ timeStepDays = 0
    /\ startTimeMs = 0
    /\ analysis = <<>>
    /\ analyzerPc = "idle"

\* the state of the calendar variables where no time is formatted
CalendarIdle ==
    /\ timestamp = 0
    /\ formatted = <<>>
    /\ parsed = Undefined
    /\ calendarPc = "idle"

\* the state of the simulator variables where no simulator is constructed
SimulatorIdle ==
    /\ simIslands = <<>>
    /\ simCall = [op |-> "idle", id |-> 0, before |-> <<>>]

\* the state of the minimum-search variables where nothing is searched
MinimumIdle ==
    /\ argStart = 0
    /\ argEnd = 0
    /\ argPrecision = <<1, 1>>
    /\ distanceProfile = [kind |-> "V", c |-> 0]
    /\ callStart = 0
    /\ callEnd = 0
    /\ callDepth = 0
    /\ minTime = 0
    /\ minPc = "idle"

UtilIdle == CalendarIdle /\ SimulatorIdle /\ MinimumIdle

ExtraIdle == IncIdle /\ AnalyzerIdle /\ UtilIdle

MoreIdle == CoolIdle /\ ScoringIdle /\ ExtraIdle

\* the state of the coordinator variables in the specifications that run no coordinator
CoordIdle ==
    /\ wstate = [w \in Workers |-> "dead"]
    /\ wShouldExit = [w \in Workers |-> FALSE]
    /\ inbox = [w \in Workers |-> <<>>]
    /\ wphase = [w \in Workers |-> 0]
    /\ wbest = [w \in Workers |-> NoScore]
    /\ witer = [w \in Workers |-> 0]
    /\ toMain = [w \in Workers |-> <<>>]
    /\ faults = 0
    /\ workersReady = 0
    /\ workersRunning = 0
    /\ currentPhase = 0
    /\ phaseResults = <<>>
    /\ allConfiguredIslands = <<>>
    /\ bestResult = NoPhaseResult
    /\ shouldExit = FALSE
    /\ sigintHandled = FALSE
    /\ exited = "idle"
    /\ outputFile = NotWritten
    /\ delivered = {}
    /\ selected = <<>>
    /\ workersCompleted = 0
    /\ currentPhases = <<>>
    /\ workerResults = <<>>

(***************************************************************************)
(* optimizeIsland, one action per loop iteration.  The run is followed     *)
(* twice: SpecSearch follows the scores of its results and what the two    *)
(* callbacks see, SpecConfig follows the islands of its configurations.    *)
(***************************************************************************)
\* "!bestStartingResult || randomResult.score < bestStartingResult.score"
BetterOrEqualStart(randomResult, best) ==
    best = NoResult \/ randomResult.score <= best.score

\* "!bestStartingResult || randomResult.score < bestStartingResult.score"
BetterStart(randomResult, best) ==
    best = NoResult \/ randomResult.score < best.score

\* Math.exp(x) for x < 0: a number from 0 (the exponential has underflowed) to 1
\* (x is too small to tell exp(x) from 1)
ExpChoices == {<<0, 1>>, <<1, 2>>, <<1, 1>>}

\* Math.random(): a number in [0, 1)
RandomChoices == {<<0, 1>>, <<1, 2>>}

\* a variant that computes the exponential also for a neighbour that is no worse
AcceptAnyDraw(neighborResult, current) == ExpChoices

\* acceptanceProbability: 1.0, or Math.exp((currentResult.score -
\* neighborResult.score) / temperature) for a neighbour that is worse
AcceptChoices(neighborResult, current) ==
    IF neighborResult.score > current.score THEN ExpChoices ELSE {<<1, 1>>}

\* a variant that accepts on a draw that the probability only equals
AcceptsOnEqual(probability, draw) == ~RatLess(probability, draw)

\* "if (acceptanceProbability > Math.random())"
Accepts(probability, draw) == RatLess(draw, probability)

\* a variant that takes every accepted state as the new best
ImprovesAlways(current, best) == TRUE

\* a variant that keeps the starting point as the best
ImprovesNever(current, best) == FALSE

\* "currentResult.score < this.bestResult.score"
ImprovesBest(current, best) == current.score < best.score

\* "if (shouldCancel && shouldCancel())": the values the callback can return
CancelChoices == BOOLEAN

\* "while (temperature > this.annealingParams.minTemperature)"
Hot(temp) == temp[1] > MinTemperature * temp[2]

\* "temperature *= this.annealingParams.coolingRate"
Cooled(temp) == <<temp[1] * CoolingRate[1], temp[2] * CoolingRate[2]>>

RunInit ==
    /\ pc = "initial"
    /\ i = 0
    /\ temperature = <<InitialTemperature, 1>>
    /\ currentConfig = <<>>
    /\ bestStartingConfig = <<>>
    /\ bestIslands = <<>>
    /\ evaluated = <<>>
    /\ returnedIslands = <<>>
    /\ currentResult = NoResult
    /\ bestStartingResult = NoResult
    /\ searchBest = NoResult
    /\ currentIteration = 0
    /\ reported = <<>>
    /\ returned = NoResult
    /\ evaluations = 0
    /\ evalScores = {}
    /\ cancelChecks = 0
    /\ cancelSeen = FALSE
    /\ initialScores = <<>>
    /\ initialSearchIndex = 0
    /\ neighborScore = Undefined
    /\ acceptanceProbability = <<1, 1>>
    /\ randomDraw = <<0, 1>>

SearchInit ==
    /\ epicycleBounds = ProportionalBounds
    /\ fixedIslands = <<>>
    /\ RunInit
    /\ CoordIdle
    /\ MoreIdle

\* one pass of "for (let i = 0; i < numInitialConfigs; i++)"
InitialStep ==
    /\ pc = "initial" /\ i < NumInitialConfigs
    /\ \E randomResult \in evaluateConfig, cancel \in CancelChoices :
         LET better == BetterStart(randomResult, bestStartingResult)
             best == IF better THEN randomResult ELSE bestStartingResult
         IN  /\ evaluations' = evaluations + 1
             /\ evalScores' = evalScores \cup {randomResult.score}
             /\ bestStartingResult' = best
             /\ initialSearchIndex' = IF better THEN i ELSE initialSearchIndex
             /\ initialScores' = Append(initialScores, randomResult.score)
             /\ reported' = IF better THEN Append(reported, best.score) ELSE reported
             /\ cancelChecks' = cancelChecks + 1
             /\ cancelSeen' = cancel
             /\ IF cancel
                THEN returned' = best /\ pc' = "done" /\ i' = i
                ELSE returned' = returned /\ pc' = pc /\ i' = i + 1
    /\ UNCHANGED <<coordVars, moreVars>>
    /\ UNCHANGED <<epicycleBounds, fixedIslands, temperature, configVars,
                   currentResult, searchBest, currentIteration, neighborScore,
                   acceptanceProbability, randomDraw>>

\* the initial loop has run out: "Initialize with the best starting configuration"
StartAnnealing ==
    /\ pc = "initial" /\ i >= NumInitialConfigs
    /\ currentResult' = bestStartingResult
    /\ searchBest' = bestStartingResult
    /\ temperature' = <<InitialTemperature, 1>>
    /\ i' = 0
    /\ pc' = "annealing"
    /\ UNCHANGED <<coordVars, moreVars>>
    /\ UNCHANGED <<epicycleBounds, fixedIslands, configVars, bestStartingResult,
                   currentIteration, reported, returned, evaluations, evalScores,
                   cancelChecks, cancelSeen, stepVars>>

\* one pass of "for (let i = 0; i < iterationsPerTemp; i++)"
AnnealStep ==
    /\ pc = "annealing" /\ Hot(temperature) /\ i < IterationsPerTemp
    /\ \E neighborResult \in evaluateConfig, cancel \in CancelChoices :
       \E probability \in AcceptChoices(neighborResult, currentResult) :
       \E draw \in RandomChoices :
         LET accept == Accepts(probability, draw)
             cur == IF accept THEN neighborResult ELSE currentResult
             improved == accept /\ ImprovesBest(cur, searchBest)
             best == IF improved THEN cur ELSE searchBest
         IN  /\ currentIteration' = currentIteration + 1
             /\ neighborScore' = Some(neighborResult.score)
             /\ acceptanceProbability' = probability
             /\ randomDraw' = draw
             /\ evaluations' = evaluations + 1
             /\ evalScores' = evalScores \cup {neighborResult.score}
             /\ currentResult' = cur
             /\ searchBest' = best
             /\ reported' = IF improved THEN Append(reported, best.score) ELSE reported
             /\ cancelChecks' = cancelChecks + 1
             /\ cancelSeen' = cancel
             /\ IF cancel
                THEN returned' = best /\ pc' = "done" /\ i' = i
                ELSE returned' = returned /\ pc' = pc /\ i' = i + 1
    /\ UNCHANGED <<coordVars, moreVars>>
    /\ UNCHANGED <<epicycleBounds, fixedIslands, temperature, configVars,
                   bestStartingResult, initialScores, initialSearchIndex>>

\* the end of one temperature level: "Cool down" and "Report temperature change"
CoolDown ==
    /\ pc = "annealing" /\ Hot(temperature) /\ i >= IterationsPerTemp
    /\ temperature' = Cooled(temperature)
    /\ reported' = Append(reported, searchBest.score)
    /\ i' = 0
    /\ UNCHANGED <<coordVars, moreVars>>
    /\ UNCHANGED <<epicycleBounds, fixedIslands, pc, configVars, currentResult,
                   bestStartingResult, searchBest, currentIteration, returned,
                   evaluations, evalScores, cancelChecks, cancelSeen, stepVars>>

\* the while loop has run out: "return this.bestResult"
ReturnBest ==
    /\ pc = "annealing" /\ ~Hot(temperature) /\ i = 0
    /\ returned' = searchBest
    /\ pc' = "done"
    /\ UNCHANGED <<coordVars, moreVars>>
    /\ UNCHANGED <<epicycleBounds, fixedIslands, i, temperature, configVars,
                   currentResult, bestStartingResult, searchBest, currentIteration,
                   reported, evaluations, evalScores, cancelChecks, cancelSeen, stepVars>>

SearchNext ==
    \/ InitialStep
    \/ StartAnnealing
    \/ AnnealStep
    \/ CoolDown
    \/ ReturnBest

SpecSearch == SearchInit /\ [][SearchNext]_vars

(***************************************************************************)
(* The same run, followed by the islands of its configurations.  Whether a *)
(* score is better, accepted or the new best is decided by the scores, so  *)
(* here each decision can go either way.                                   *)
(***************************************************************************)
ConfigInit ==
    /\ epicycleBounds \in BoundsChoices
    /\ fixedIslands \in FixedChoices
    /\ RunInit
    /\ CoordIdle
    /\ MoreIdle

\* generateRandomIslandConfig throws: the Error leaves optimizeIsland
GenerateThrows ==
    /\ pc = "initial" /\ i < NumInitialConfigs
    /\ \E g \in generateRandomConfig(epicycleBounds, fixedIslands) : ~g.ok
    /\ pc' = "threw"
    /\ UNCHANGED <<coordVars, moreVars>>
    /\ UNCHANGED <<epicycleBounds, fixedIslands, i, temperature, configVars, scoreVars>>

\* one pass of the initial loop: randomConfig, its evaluation, the best start
GenerateStep ==
    /\ pc = "initial" /\ i < NumInitialConfigs
    /\ \E g \in generateRandomConfig(epicycleBounds, fixedIslands) :
       \E better \in (IF bestStartingConfig = <<>> THEN {TRUE} ELSE BOOLEAN) :
       \E cancel \in CancelChoices :
         LET best == IF better THEN g.islands ELSE bestStartingConfig
         IN  /\ g.ok
             /\ evaluated' = g.islands
             /\ bestStartingConfig' = best
             /\ IF cancel
                THEN returnedIslands' = best /\ pc' = "done" /\ i' = i
                ELSE returnedIslands' = returnedIslands /\ pc' = pc /\ i' = i + 1
    /\ UNCHANGED <<coordVars, moreVars>>
    /\ UNCHANGED <<epicycleBounds, fixedIslands, temperature, currentConfig,
                   bestIslands, scoreVars>>

\* "let currentConfig = bestStartingConfig", "this.bestResult = {...currentResult}"
BeginAnnealing ==
    /\ pc = "initial" /\ i >= NumInitialConfigs
    /\ currentConfig' = bestStartingConfig
    /\ bestIslands' = bestStartingConfig
    /\ temperature' = <<InitialTemperature, 1>>
    /\ i' = 0
    /\ pc' = "annealing"
    /\ UNCHANGED <<coordVars, moreVars>>
    /\ UNCHANGED <<epicycleBounds, fixedIslands, bestStartingConfig, evaluated,
                   returnedIslands, scoreVars>>

\* one pass of the annealing loop: neighborConfig, its evaluation, accept or not
PerturbStep ==
    /\ pc = "annealing" /\ Hot(temperature) /\ i < IterationsPerTemp
    /\ \E n \in perturbConfig(epicycleBounds, currentConfig, temperature) :
       \E accept \in BOOLEAN, cancel \in CancelChoices :
       \E improved \in (IF accept THEN BOOLEAN ELSE {FALSE}) :
         LET best == IF improved THEN n.islands ELSE bestIslands
         IN  /\ n.ok
             /\ evaluated' = n.islands
             /\ currentConfig' = IF accept THEN n.islands ELSE n.input
             /\ bestIslands' = best
             /\ IF cancel
                THEN returnedIslands' = best /\ pc' = "done" /\ i' = i
                ELSE returnedIslands' = returnedIslands /\ pc' = pc /\ i' = i + 1
    /\ UNCHANGED <<coordVars, moreVars>>
    /\ UNCHANGED <<epicycleBounds, fixedIslands, temperature, bestStartingConfig,
                   scoreVars>>

\* perturbConfig throws: the Error leaves optimizeIsland
PerturbThrows ==
    /\ pc = "annealing" /\ Hot(temperature) /\ i < IterationsPerTemp
    /\ \E n \in perturbConfig(epicycleBounds, currentConfig, temperature) : ~n.ok
    /\ pc' = "threw"
    /\ UNCHANGED <<coordVars, moreVars>>
    /\ UNCHANGED <<epicycleBounds, fixedIslands, i, temperature, configVars, scoreVars>>

\* the end of one temperature level
ConfigCoolDown ==
    /\ pc = "annealing" /\ Hot(temperature) /\ i >= IterationsPerTemp
    /\ temperature' = Cooled(temperature)
    /\ i' = 0
    /\ UNCHANGED <<coordVars, moreVars>>
    /\ UNCHANGED <<epicycleBounds, fixedIslands, pc, configVars, scoreVars>>

\* "return this.bestResult"
ReturnIslands ==
    /\ pc = "annealing" /\ ~Hot(temperature) /\ i = 0
    /\ returnedIslands' = bestIslands
    /\ pc' = "done"
    /\ UNCHANGED <<coordVars, moreVars>>
    /\ UNCHANGED <<epicycleBounds, fixedIslands, i, temperature, currentConfig,
                   bestStartingConfig, bestIslands, evaluated, scoreVars>>

ConfigNext ==
    \/ GenerateThrows
    \/ GenerateStep
    \/ BeginAnnealing
    \/ PerturbStep
    \/ PerturbThrows
    \/ ConfigCoolDown
    \/ ReturnIslands

SpecConfig == ConfigInit /\ [][ConfigNext]_vars

(***************************************************************************)
(* The per-phase fan-out coordinator (src/unnamed/part_000): its worker    *)
(* threads.  optimizeIsland is synchronous, so a worker that is optimizing *)
(* is not in its event loop and handles no message until the run is over.  *)
(***************************************************************************)
Msg(type, result) == [type |-> type, result |-> result]
Order(type, phase) == [type |-> type, phase |-> phase]
Post(queues, w, msgs) == [queues EXCEPT ![w] = queues[w] \o msgs]

PhaseInit ==
    /\ wstate = [w \in Workers |-> "loading"]
    /\ wShouldExit = [w \in Workers |-> FALSE]
    /\ inbox = [w \in Workers |-> <<>>]
    /\ wphase = [w \in Workers |-> 0]
    /\ wbest = [w \in Workers |-> NoScore]
    /\ witer = [w \in Workers |-> 0]
    /\ toMain = [w \in Workers |-> <<>>]
    /\ faults = 0
    /\ workersReady = 0
    /\ workersRunning = 0
    /\ currentPhase = 0
    /\ phaseResults = <<>>
    /\ allConfiguredIslands = <<[id |-> baseIsland.id, score |-> NoScore]>>
    /\ bestResult = NoPhaseResult
    /\ shouldExit = FALSE
    /\ sigintHandled = FALSE
    /\ exited = "running"
    /\ outputFile = NotWritten
    /\ delivered = {}
    /\ selected = [phase |-> 0, score |-> NoScore, finals |-> {}]
    /\ workersCompleted = 0
    /\ currentPhases = <<>>
    /\ workerResults = <<>>
    /\ epicycleBounds = ProportionalBounds
    /\ fixedIslands = <<>>
    /\ RunInit
    /\ MoreIdle

\* runWorker has installed its message listener: "Signal that the worker is ready"
WorkerReady(w) ==
    /\ exited = "running" /\ wstate[w] = "loading"
    /\ wstate' = [wstate EXCEPT ![w] = "idle"]
    /\ toMain' = Post(toMain, w, <<Msg("worker-ready", NoPhaseResult)>>)
    /\ UNCHANGED <<wShouldExit, inbox, wphase, wbest, witer, faults, mainVars, searchVars, moreVars, fullVars>>

\* parentPort.on('message'): runs only when the worker is back in its event loop
WorkerOnMessage(w) ==
    /\ exited = "running" /\ wstate[w] = "idle" /\ inbox[w] # <<>>
    /\ inbox' = [inbox EXCEPT ![w] = Tail(inbox[w])]
    /\ IF Head(inbox[w]).type = "exit"
       THEN /\ wShouldExit' = [wShouldExit EXCEPT ![w] = TRUE]
            /\ UNCHANGED <<wstate, wphase, wbest, witer>>
       ELSE \* 'optimize-island': optimizeIsland(message.data) starts
            /\ wstate' = [wstate EXCEPT ![w] = "optimizing"]
            /\ wphase' = [wphase EXCEPT ![w] = Head(inbox[w]).phase]
            /\ wbest' = [wbest EXCEPT ![w] = NoScore]
            /\ witer' = [witer EXCEPT ![w] = 0]
            /\ UNCHANGED wShouldExit
    /\ UNCHANGED <<toMain, faults, mainVars, searchVars, moreVars, fullVars>>

\* optimizeIsland(params) is over: its locals are gone, the event loop runs again
BackToEventLoop(w) ==
    /\ wstate' = [wstate EXCEPT ![w] = "idle"]
    /\ wphase' = [wphase EXCEPT ![w] = 0]
    /\ wbest' = [wbest EXCEPT ![w] = NoScore]
    /\ witer' = [witer EXCEPT ![w] = 0]

\* "() => shouldExit", the shouldCancel the worker hands to optimizeIsland
ShouldCancel(w) == wShouldExit[w]

\* one configuration evaluated inside search.optimizeIsland: the progress callback
\* posts a better result, then shouldCancel is consulted
WorkerIterate(w) ==
    /\ exited = "running" /\ wstate[w] = "optimizing" /\ witer[w] < WorkerIterations
    /\ \E s \in WorkerScores :
         LET improved == wbest[w] = NoScore \/ s < wbest[w]
             best == IF improved THEN s ELSE wbest[w]
             progress == IF improved
                         THEN <<Msg("optimization-progress", PhaseResult(wphase[w], best))>>
                         ELSE <<>>
         IN  IF ShouldCancel(w)
             THEN /\ toMain' = Post(toMain, w, progress \o
                       <<Msg("optimization-result", PhaseResult(wphase[w], best))>>)
                  /\ BackToEventLoop(w)
             ELSE /\ toMain' = Post(toMain, w, progress)
                  /\ wbest' = [wbest EXCEPT ![w] = best]
                  /\ witer' = [witer EXCEPT ![w] = witer[w] + 1]
                  /\ UNCHANGED <<wstate, wphase>>
    /\ UNCHANGED <<wShouldExit, inbox, faults, mainVars, searchVars, moreVars, fullVars>>

\* the temperature schedule has run out: the last cooling report, then the result
WorkerReturn(w) ==
    /\ exited = "running" /\ wstate[w] = "optimizing" /\ witer[w] >= WorkerIterations
    /\ toMain' = Post(toMain, w,
         <<Msg("optimization-progress", PhaseResult(wphase[w], wbest[w])),
           Msg("optimization-result", PhaseResult(wphase[w], wbest[w]))>>)
    /\ BackToEventLoop(w)
    /\ UNCHANGED <<wShouldExit, inbox, faults, mainVars, searchVars, moreVars, fullVars>>

\* the run throws: the catch block posts an 'error' message and the worker lives on
WorkerThrows(w) ==
    /\ exited = "running" /\ wstate[w] = "optimizing" /\ faults < MaxFaults
    /\ faults' = faults + 1
    /\ toMain' = Post(toMain, w, <<Msg("error", NoPhaseResult)>>)
    /\ BackToEventLoop(w)
    /\ UNCHANGED <<wShouldExit, inbox, mainVars, searchVars, moreVars, fullVars>>

\* the thread dies of an uncaught error: the Worker object emits 'error', then
\* 'exit' with a non-zero code
WorkerCrash(w) ==
    /\ exited = "running" /\ wstate[w] # "dead" /\ faults < MaxFaults
    /\ faults' = faults + 1
    /\ wstate' = [wstate EXCEPT ![w] = "dead"]
    /\ wphase' = [wphase EXCEPT ![w] = 0]
    /\ wbest' = [wbest EXCEPT ![w] = NoScore]
    /\ witer' = [witer EXCEPT ![w] = 0]
    /\ inbox' = [inbox EXCEPT ![w] = <<>>]
    /\ toMain' = Post(toMain, w, <<Msg("error-event", NoPhaseResult),
                                   Msg("exit-event", NoPhaseResult)>>)
    /\ UNCHANGED <<wShouldExit, mainVars, searchVars, moreVars, fullVars>>

(***************************************************************************)
(* The per-phase fan-out coordinator: the main thread.                     *)
(***************************************************************************)
\* completePhase's loop: the first entry, in insertion order, of the lowest score
BestEntry(m) ==
    IF m = <<>>
    THEN NoPhaseResult
    ELSE LET n == CHOOSE n \in 1 .. Len(m) :
                    /\ \A k \in 1 .. Len(m) : m[n].value.score <= m[k].value.score
                    /\ \A k \in 1 .. n - 1 : m[k].value.score > m[n].value.score
         IN  m[n].value

\* "bestPhaseResult.islands[bestPhaseResult.islands.length - 1]"
ConfiguredIslandOf(result) == [id |-> result.phase, score |-> result.score]

\* workers[i].postMessage(...) for every i; a dead thread drops what is posted to it
PostAll(order) ==
    [w \in DOMAIN wstate |->
        IF wstate[w] = "dead" THEN inbox[w] ELSE Append(inbox[w], order)]

\* the main thread returns from a handler of worker w's message: the process lives on
Dequeue(w) ==
    /\ toMain' = [toMain EXCEPT ![w] = Tail(toMain[w])]
    /\ UNCHANGED <<wstate, wShouldExit, wphase, wbest, witer>>

\* process.exit(code): the worker threads end with the process
ProcessExit(how) ==
    /\ exited' = how
    /\ wstate' = [w \in DOMAIN wstate |-> "dead"]
    /\ wShouldExit' = [w \in DOMAIN wstate |-> FALSE]
    /\ inbox' = [w \in DOMAIN wstate |-> <<>>]
    /\ wphase' = [w \in DOMAIN wstate |-> 0]
    /\ wbest' = [w \in DOMAIN wstate |-> NoScore]
    /\ witer' = [w \in DOMAIN wstate |-> 0]
    /\ toMain' = [w \in DOMAIN wstate |-> <<>>]

\* startNextPhase, entered with the given currentPhase, islands, counter and results
\* from the handler of worker w's message
StartNextPhase(phase, islands, running, results, w) ==
    IF phase >= TotalPhases
    THEN \* "All phases complete, save final result", process.exit(0)
         /\ outputFile' = islands
         /\ ProcessExit("completed")
         /\ workersRunning' = running
         /\ phaseResults' = results
         /\ UNCHANGED delivered
    ELSE /\ phaseResults' = <<>>
         /\ workersRunning' = NumWorkers
         /\ inbox' = PostAll(Order("optimize-island", phase + 1))
         /\ delivered' = {}
         /\ Dequeue(w)
         /\ UNCHANGED <<outputFile, exited>>

\* completePhase, entered with the given counter and results
CompletePhase(running, results, finals, w) ==
    LET bestPhaseResult == BestEntry(results)
        islands == Append(allConfiguredIslands, ConfiguredIslandOf(bestPhaseResult))
    IN  IF bestPhaseResult # NoPhaseResult
        THEN /\ allConfiguredIslands' = islands
             /\ bestResult' = bestPhaseResult
             /\ currentPhase' = currentPhase + 1
             /\ selected' = [phase |-> currentPhase + 1,
                             score |-> bestPhaseResult.score,
                             finals |-> finals]
             /\ StartNextPhase(currentPhase + 1, islands, running, results, w)
        ELSE \* "No valid result found for this phase", process.exit(1)
             /\ ProcessExit("no-result")
             /\ workersRunning' = running
             /\ phaseResults' = results
             /\ UNCHANGED <<allConfiguredIslands, bestResult, currentPhase, selected,
                            outputFile, delivered>>

\* the main thread's event loop takes worker w's next message or event
Handles(w, type) ==
    /\ exited = "running"
    /\ toMain[w] # <<>>
    /\ Head(toMain[w]).type = type

\* handleWorkerMessage, 'worker-ready'
HandleWorkerReady(w) ==
    /\ Handles(w, "worker-ready")
    /\ workersReady' = workersReady + 1
    /\ IF workersReady + 1 = NumWorkers
       THEN StartNextPhase(currentPhase, allConfiguredIslands, workersRunning,
                           phaseResults, w)
       ELSE /\ Dequeue(w)
            /\ UNCHANGED <<phaseResults, workersRunning, inbox, delivered, outputFile,
                           exited>>
    /\ UNCHANGED <<faults, currentPhase, allConfiguredIslands, bestResult, shouldExit,
                   sigintHandled, selected, searchVars, moreVars, fullVars>>

\* handleWorkerMessage, 'optimization-progress'
HandleProgress(w) ==
    /\ Handles(w, "optimization-progress")
    /\ LET result == Head(toMain[w]).result
           currentOfWorker == MapGet(phaseResults, w)
       IN  phaseResults' =
             IF currentOfWorker = NoPhaseResult \/ result.score < currentOfWorker.score
             THEN MapSet(phaseResults, w, result)
             ELSE phaseResults
    /\ Dequeue(w)
    /\ UNCHANGED <<inbox, faults, workersReady, workersRunning, currentPhase,
                   allConfiguredIslands, bestResult, shouldExit, sigintHandled, exited,
                   outputFile, delivered, selected, searchVars, moreVars, fullVars>>

\* handleWorkerMessage, 'optimization-result'
HandleResult(w) ==
    /\ Handles(w, "optimization-result")
    /\ LET result == Head(toMain[w]).result
           results == MapSet(phaseResults, w, result)
           running == workersRunning - 1
           done == IF result.phase = currentPhase + 1 THEN delivered \cup {w} ELSE delivered
       IN  IF running = 0
           THEN CompletePhase(running, results, {MapGet(results, d).score : d \in done}, w)
           ELSE /\ phaseResults' = results
                /\ workersRunning' = running
                /\ delivered' = done
                /\ Dequeue(w)
                /\ UNCHANGED <<currentPhase, allConfiguredIslands, bestResult, selected,
                               inbox, outputFile, exited>>
    /\ UNCHANGED <<faults, workersReady, shouldExit, sigintHandled, searchVars, moreVars, fullVars>>

\* handleWorkerMessage, 'error'
HandleError(w) ==
    /\ Handles(w, "error")
    /\ workersRunning' = workersRunning - 1
    /\ IF workersRunning - 1 = 0
       THEN \* "All workers have failed", process.exit(1)
            ProcessExit("all-failed")
       ELSE Dequeue(w) /\ UNCHANGED <<inbox, exited>>
    /\ UNCHANGED <<faults, workersReady, currentPhase, phaseResults, allConfiguredIslands,
                   bestResult, shouldExit, sigintHandled, outputFile, delivered, selected,
                   searchVars, moreVars, fullVars>>

\* worker.on('error')
OnWorkerError(w) ==
    /\ Handles(w, "error-event")
    /\ workersRunning' = workersRunning - 1
    /\ Dequeue(w)
    /\ UNCHANGED <<inbox, faults, workersReady, currentPhase, phaseResults,
                   allConfiguredIslands, bestResult, shouldExit, sigintHandled, exited,
                   outputFile, delivered, selected, searchVars, moreVars, fullVars>>

\* worker.on('exit'), the code being non-zero
OnWorkerExit(w) ==
    /\ Handles(w, "exit-event")
    /\ workersRunning' = IF ~shouldExit THEN workersRunning - 1 ELSE workersRunning
    /\ Dequeue(w)
    /\ UNCHANGED <<inbox, faults, workersReady, currentPhase, phaseResults,
                   allConfiguredIslands, bestResult, shouldExit, sigintHandled, exited,
                   outputFile, delivered, selected, searchVars, moreVars, fullVars>>

\* process.on('SIGINT'), the first time
Sigint ==
    /\ exited = "running" /\ ~sigintHandled
    /\ sigintHandled' = TRUE
    /\ shouldExit' = TRUE
    /\ inbox' = PostAll(Order("exit", 0))
    /\ outputFile' = IF bestResult # NoPhaseResult THEN allConfiguredIslands ELSE outputFile
    /\ UNCHANGED <<wstate, wShouldExit, wphase, wbest, witer, faults, toMain, workersReady,
                   workersRunning, currentPhase, phaseResults, allConfiguredIslands,
                   bestResult, exited, delivered, selected, searchVars, moreVars, fullVars>>

\* process.on('SIGINT') again: "Force exiting...", process.exit(1)
SigintAgain ==
    /\ exited = "running" /\ sigintHandled
    /\ ProcessExit("forced")
    /\ UNCHANGED <<faults, workersReady, workersRunning, currentPhase, phaseResults,
                   allConfiguredIslands, bestResult, shouldExit, sigintHandled,
                   outputFile, delivered, selected, searchVars, moreVars, fullVars>>

\* the handler's setTimeout: process.exit(0) after 500 ms
SigintTimeout ==
    /\ exited = "running" /\ sigintHandled
    /\ ProcessExit("interrupted")
    /\ UNCHANGED <<faults, workersReady, workersRunning, currentPhase, phaseResults,
                   allConfiguredIslands, bestResult, shouldExit, sigintHandled,
                   outputFile, delivered, selected, searchVars, moreVars, fullVars>>

PhaseNext ==
    \/ \E w \in Workers :
         \/ WorkerReady(w)
         \/ WorkerOnMessage(w)
         \/ WorkerIterate(w)
         \/ WorkerReturn(w)
         \/ WorkerThrows(w)
         \/ WorkerCrash(w)
         \/ HandleWorkerReady(w)
         \/ HandleProgress(w)
         \/ HandleResult(w)
         \/ HandleError(w)
         \/ OnWorkerError(w)
         \/ OnWorkerExit(w)
    \/ Sigint
    \/ SigintAgain
    \/ SigintTimeout

SpecPhase == PhaseInit /\ [][PhaseNext]_vars

(***************************************************************************)
(* The full-search fan-out coordinator (src/scripts/search-island-config.js): *)
(* every worker runs searchIncremental, all phases, from the moment it     *)
(* starts; searchIncremental is synchronous, like optimizeIsland.          *)
(***************************************************************************)
FullWorkers == 0 .. FullNumWorkers - 1

\* bestResult of the full search: a result and the currentPhase it was tagged with
\* (0 when the object has no such property)
Tagged(result, tag) == [phase |-> result.phase, score |-> result.score, currentPhase |-> tag]
NoBest == Tagged(NoPhaseResult, 0)

\* "currentPhases.get(workerId) || 0"
PhaseOf(m, w) == IF MapHas(m, w) THEN m[MapIndex(m, w)].value ELSE 0

FullInit ==
    /\ wstate = [w \in FullWorkers |-> "optimizing"]
    /\ wShouldExit = [w \in FullWorkers |-> FALSE]
    /\ inbox = [w \in FullWorkers |-> <<>>]
    /\ wphase = [w \in FullWorkers |-> 1]
    /\ wbest = [w \in FullWorkers |-> NoScore]
    /\ witer = [w \in FullWorkers |-> 0]
    /\ toMain = [w \in FullWorkers |-> <<>>]
    /\ faults = 0
    /\ workersReady = 0
    /\ workersRunning = FullNumWorkers
    /\ currentPhase = 0
    /\ phaseResults = <<>>
    /\ allConfiguredIslands = <<>>
    /\ bestResult = NoBest
    /\ shouldExit = FALSE
    /\ sigintHandled = FALSE
    /\ exited = "running"
    /\ outputFile = NotWritten
    /\ delivered = {}
    /\ selected = <<>>
    /\ workersCompleted = 0
    /\ currentPhases = <<>>
    /\ workerResults = <<>>
    /\ epicycleBounds = ProportionalBounds
    /\ fixedIslands = <<>>
    /\ RunInit
    /\ MoreIdle

\* parentPort.on('message'): only 'exit' means anything to this worker
FullWorkerOnMessage(w) ==
    /\ exited = "running" /\ wstate[w] = "idle" /\ inbox[w] # <<>>
    /\ inbox' = [inbox EXCEPT ![w] = Tail(inbox[w])]
    /\ wShouldExit' = [wShouldExit EXCEPT ![w] =
                          wShouldExit[w] \/ Head(inbox[w]).type = "exit"]
    /\ UNCHANGED <<wstate, wphase, wbest, witer, toMain, faults, mainVars, searchVars, moreVars,
                   fullVars>>

\* one configuration evaluated in the optimizeIsland of the worker's phase: the
\* progress wrapper posts a better result, then shouldCancel is consulted
FullWorkerIterate(w) ==
    /\ exited = "running" /\ wstate[w] = "optimizing" /\ witer[w] < WorkerIterations
    /\ \E s \in WorkerScores :
         LET improved == wbest[w] = NoScore \/ s < wbest[w]
             best == IF improved THEN s ELSE wbest[w]
             progress == IF improved
                         THEN <<Msg("incremental-progress", PhaseResult(wphase[w], best))>>
                         ELSE <<>>
         IN  IF ShouldCancel(w)
             THEN \* "If the search was cancelled, return the current best result"
                  /\ toMain' = Post(toMain, w, progress \o
                       <<Msg("result", PhaseResult(wphase[w], best))>>)
                  /\ BackToEventLoop(w)
             ELSE /\ toMain' = Post(toMain, w, progress)
                  /\ wbest' = [wbest EXCEPT ![w] = best]
                  /\ witer' = [witer EXCEPT ![w] = witer[w] + 1]
                  /\ UNCHANGED <<wstate, wphase>>
    /\ UNCHANGED <<wShouldExit, inbox, faults, mainVars, searchVars, moreVars, fullVars>>

\* the optimizeIsland of a phase that is not the last returns after its last cooling
\* report: "currentIslands = phaseResult.islands", the next phase begins
FullWorkerNextPhase(w) ==
    /\ exited = "running" /\ wstate[w] = "optimizing" /\ witer[w] >= WorkerIterations
    /\ wphase[w] < TotalPhases
    /\ toMain' = Post(toMain, w,
         <<Msg("incremental-progress", PhaseResult(wphase[w], wbest[w]))>>)
    /\ wphase' = [wphase EXCEPT ![w] = wphase[w] + 1]
    /\ wbest' = [wbest EXCEPT ![w] = NoScore]
    /\ witer' = [witer EXCEPT ![w] = 0]
    /\ UNCHANGED <<wstate, wShouldExit, inbox, faults, mainVars, searchVars, moreVars, fullVars>>

\* the last phase returns: the final evaluation of all islands, then 'result'
FullWorkerReturn(w) ==
    /\ exited = "running" /\ wstate[w] = "optimizing" /\ witer[w] >= WorkerIterations
    /\ wphase[w] = TotalPhases
    /\ \E totalScore \in WorkerScores :
         toMain' = Post(toMain, w,
           <<Msg("incremental-progress", PhaseResult(wphase[w], wbest[w])),
             Msg("result", PhaseResult(wphase[w], totalScore))>>)
    /\ BackToEventLoop(w)
    /\ UNCHANGED <<wShouldExit, inbox, faults, mainVars, searchVars, moreVars, fullVars>>

\* searchIncremental throws: the catch block posts 'error'
FullWorkerThrows(w) ==
    /\ exited = "running" /\ wstate[w] = "optimizing" /\ faults < MaxFaults
    /\ faults' = faults + 1
    /\ toMain' = Post(toMain, w, <<Msg("error", NoPhaseResult)>>)
    /\ BackToEventLoop(w)
    /\ UNCHANGED <<wShouldExit, inbox, mainVars, searchVars, moreVars, fullVars>>

\* updateDisplay, workerResults being non-empty: the best of the workers' current
\* results, highest phase first, then lowest score, first seen winning
RECURSIVE DisplayBest(_, _, _, _)
DisplayBest(results, phases, n, best) ==
    IF n > Len(results)
    THEN best
    ELSE LET result == results[n].value
             workerPhase == PhaseOf(phases, results[n].key)
             better == \/ workerPhase > best.highestPhase
                       \/ /\ workerPhase = best.highestPhase
                          /\ (best.result = NoPhaseResult \/ result.score < best.result.score)
         IN  DisplayBest(results, phases, n + 1,
                         IF better
                         THEN [highestPhase |-> Max2(workerPhase, best.highestPhase),
                               result |-> result]
                         ELSE best)

\* bestResult after updateDisplay has run with updateNeeded set
updateDisplay(best, results, phases) ==
    LET currentBestResult ==
            DisplayBest(results, phases, 1,
                        [highestPhase |-> 0, result |-> NoPhaseResult]).result
    IN  IF results # <<>> /\ currentBestResult # NoPhaseResult
        THEN Tagged(currentBestResult, 0)
        ELSE best

\* "!bestResult || workerPhase > currentHighestPhase ||
\*  (workerPhase === currentHighestPhase && result.score < bestResult.score)"
ReplacesBest(best, workerPhase, result) ==
    LET currentHighestPhase == IF best # NoBest THEN best.currentPhase ELSE 0
    IN  \/ best = NoBest
        \/ workerPhase > currentHighestPhase
        \/ workerPhase = currentHighestPhase /\ result.score < best.score

\* handleWorkerMessage, 'incremental-progress'
FullHandleProgress(w) ==
    /\ Handles(w, "incremental-progress")
    /\ LET result == Head(toMain[w]).result
           phases == MapSet(currentPhases, w, result.phase)
           results == MapSet(workerResults, w, result)
           shown == updateDisplay(bestResult, results, phases)
           workerPhase == PhaseOf(phases, w)
       IN  /\ currentPhases' = phases
           /\ workerResults' = results
           /\ bestResult' = IF ReplacesBest(shown, workerPhase, result)
                            THEN Tagged(result, workerPhase)
                            ELSE shown
    /\ Dequeue(w)
    /\ UNCHANGED <<inbox, faults, workersReady, workersRunning, currentPhase, phaseResults,
                   allConfiguredIslands, shouldExit, sigintHandled, exited, outputFile,
                   delivered, selected, workersCompleted, searchVars, moreVars>>

\* handleWorkerMessage, 'result'
FullHandleResult(w) ==
    /\ Handles(w, "result")
    /\ LET result == Head(toMain[w]).result
           workerPhase == PhaseOf(currentPhases, w)
           best == IF ReplacesBest(bestResult, workerPhase, result)
                   THEN Tagged(result, workerPhase)
                   ELSE bestResult
       IN  /\ workerResults' = MapSet(workerResults, w, result)
           /\ bestResult' = best
           /\ workersCompleted' = workersCompleted + 1
           /\ workersRunning' = workersRunning - 1
           /\ IF workersRunning - 1 = 0
              THEN \* "Search completed. Saving configuration", process.exit(0)
                   /\ outputFile' = <<PhaseResult(best.phase, best.score)>>
                   /\ ProcessExit("completed")
              ELSE Dequeue(w) /\ UNCHANGED <<inbox, outputFile, exited>>
    /\ UNCHANGED <<faults, workersReady, currentPhase, phaseResults, allConfiguredIslands,
                   shouldExit, sigintHandled, delivered, selected, currentPhases,
                   searchVars, moreVars>>

\* setInterval: "updateNeeded = true; updateDisplay();"
UpdateInterval ==
    /\ exited = "running"
    /\ bestResult' = updateDisplay(bestResult, workerResults, currentPhases)
    /\ UNCHANGED <<workerVars, workersReady, workersRunning, currentPhase, phaseResults,
                   allConfiguredIslands, shouldExit, sigintHandled, exited, outputFile,
                   delivered, selected, fullVars, searchVars, moreVars>>

\* process.on('SIGINT'), the first time: bestResult.islands is saved if there is one
FullSigint ==
    /\ exited = "running" /\ ~sigintHandled
    /\ sigintHandled' = TRUE
    /\ shouldExit' = TRUE
    /\ inbox' = PostAll(Order("exit", 0))
    /\ outputFile' = IF bestResult # NoBest
                     THEN <<PhaseResult(bestResult.phase, bestResult.score)>>
                     ELSE outputFile
    /\ UNCHANGED <<wstate, wShouldExit, wphase, wbest, witer, faults, toMain, workersReady,
                   workersRunning, currentPhase, phaseResults, allConfiguredIslands,
                   bestResult, exited, delivered, selected, fullVars, searchVars, moreVars>>

FullNext ==
    \/ \E w \in FullWorkers :
         \/ FullWorkerOnMessage(w)
         \/ FullWorkerIterate(w)
         \/ FullWorkerNextPhase(w)
         \/ FullWorkerReturn(w)
         \/ FullWorkerThrows(w)
         \/ WorkerCrash(w)
         \/ FullHandleProgress(w)
         \/ FullHandleResult(w)
         \/ HandleError(w)
         \/ OnWorkerError(w)
         \/ OnWorkerExit(w)
    \/ UpdateInterval
    \/ FullSigint
    \/ SigintAgain
    \/ SigintTimeout

SpecFull == FullInit /\ [][FullNext]_vars

(***************************************************************************)
(* The loop control of optimizeIsland (sim.ts 1024-1176) under any cooling *)
(* rate the constructor accepts: only the loop indices, the temperature    *)
(* and two counters are followed.  The loops are fairly scheduled: a run   *)
(* that can take a step takes it.                                          *)
(***************************************************************************)
\* annealingParams.coolingRate as the caller can give it: 1/2, 2/3, 3/4 and 1
CoolingRates == {<<1, 2>>, <<2, 3>>, <<3, 4>>, <<1, 1>>}

\* a rate strictly between 0 and 1
Cools(rate) == 0 < rate[1] /\ rate[1] < rate[2]

\* a variant of the cooling that leaves the temperature as it is
NotCooled(temp, rate) == temp

\* "temperature *= this.annealingParams.coolingRate"
CooledAt(temp, rate) == <<temp[1] * rate[1], temp[2] * rate[2]>>

\* a counter of the model, which stops at MaxCount
Bump(n) == Min2(n + 1, MaxCount)

\* the number of temperature levels "while (temperature > minTemperature)" runs
\* from temp on, for a rate that cools
RECURSIVE LevelsFrom(_, _)
LevelsFrom(temp, rate) ==
    IF Hot(temp) THEN 1 + LevelsFrom(CooledAt(temp, rate), rate) ELSE 0

CoolingInit ==
    /\ coolingRate \in CoolingRates
    /\ levels = 0
    /\ epicycleBounds = ProportionalBounds
    /\ fixedIslands = <<>>
    /\ RunInit
    /\ CoordIdle
    /\ ScoringIdle
    /\ ExtraIdle

LoopFrame ==
    UNCHANGED <<coordVars, scoringVars, extraVars, epicycleBounds, fixedIslands, configVars, currentResult,
                bestStartingResult, searchBest, currentIteration, reported, returned,
                evalScores, cancelChecks, stepVars, coolingRate>>

\* one pass of "for (let i = 0; i < numInitialConfigs; i++)"
LoopInitialStep ==
    /\ pc = "initial" /\ i < NumInitialConfigs
    /\ evaluations' = Bump(evaluations)
    /\ \E cancel \in CancelChoices :
         /\ cancelSeen' = cancel
         /\ IF cancel THEN pc' = "done" /\ i' = i ELSE pc' = pc /\ i' = i + 1
    /\ UNCHANGED <<temperature, levels>>
    /\ LoopFrame

\* "let temperature = this.annealingParams.initialTemperature"
LoopStartAnnealing ==
    /\ pc = "initial" /\ i >= NumInitialConfigs
    /\ temperature' = <<InitialTemperature, 1>>
    /\ i' = 0
    /\ pc' = "annealing"
    /\ UNCHANGED <<evaluations, cancelSeen, levels>>
    /\ LoopFrame

\* one pass of "for (let i = 0; i < iterationsPerTemp; i++)"
LoopAnnealStep ==
    /\ pc = "annealing" /\ Hot(temperature) /\ i < IterationsPerTemp
    /\ evaluations' = Bump(evaluations)
    /\ \E cancel \in CancelChoices :
         /\ cancelSeen' = cancel
         /\ IF cancel THEN pc' = "done" /\ i' = i ELSE pc' = pc /\ i' = i + 1
    /\ UNCHANGED <<temperature, levels>>
    /\ LoopFrame

\* the for loop has run out: "temperature *= this.annealingParams.coolingRate"
LoopCoolDown ==
    /\ pc = "annealing" /\ Hot(temperature) /\ i >= IterationsPerTemp
    /\ temperature' = CooledAt(temperature, coolingRate)
    /\ levels' = Bump(levels)
    /\ i' = 0
    /\ UNCHANGED <<pc, evaluations, cancelSeen>>
    /\ LoopFrame

\* the while loop has run out: "return this.bestResult"
LoopReturn ==
    /\ pc = "annealing" /\ ~Hot(temperature) /\ i = 0
    /\ pc' = "done"
    /\ UNCHANGED <<i, temperature, evaluations, cancelSeen, levels>>
    /\ LoopFrame

CoolingNext ==
    \/ LoopInitialStep
    \/ LoopStartAnnealing
    \/ LoopAnnealStep
    \/ LoopCoolDown
    \/ LoopReturn

SpecCooling == CoolingInit /\ [][CoolingNext]_vars /\ WF_vars(CoolingNext)

(***************************************************************************)
(* The scoring loop of evaluateConfig (sim.ts 952-985), which the final    *)
(* evaluation of searchIncremental repeats (sim.ts 1294-1327).  A score is *)
(* kept exact: Math.log of a positive fraction is the fraction itself      *)
(* (ln is increasing, ln 1 = 0, a sum of logarithms is the logarithm of    *)
(* the product), so the score penalties * 1000000 + 100 * ln(ratio) is the *)
(* pair of penalties and ratio.                                            *)
(***************************************************************************)
RECURSIVE GCD(_, _)
GCD(a, b) == IF b = 0 THEN a ELSE GCD(b, a % b)
\* a positive fraction <<n, d>> in lowest terms
Reduced(r) == <<r[1] \div GCD(r[1], r[2]), r[2] \div GCD(r[1], r[2])>>
RatTimes(x, y) == Reduced(<<x[1] * y[1], x[2] * y[2]>>)

\* a variant of Math.abs that keeps the sign of the logarithm
SignedLog(r) == Reduced(r)

\* Math.abs(Math.log(ratio)): -ln(r) is ln(1/r)
AbsLog(r) == IF r[1] < r[2] THEN Reduced(<<r[2], r[1]>>) ELSE Reduced(r)

\* an error or a score: penalty is its multiple of 1000000, log the fraction whose
\* logarithm, times 100, is the rest
Error(penalty, log) == [penalty |-> penalty, log |-> log]
ZeroError == Error(0, <<1, 1>>)
Plus(x, y) == Error(x.penalty + y.penalty, RatTimes(x.log, y.log))
\* x < y as numbers: a logarithmic term stays far below one penalty
ErrorLess(x, y) ==
    \/ x.penalty < y.penalty
    \/ x.penalty = y.penalty /\ RatLess(x.log, y.log)
\* "totalScore += 1000000"
Penalty == Error(1, <<1, 1>>)

\* "Math.abs(Math.log(pairStats.avgTimeBetweenConjunctions / target.targetAvgGap)) * 100"
logRatioError(actualAvgGap, targetAvgGap) ==
    Error(0, AbsLog(<<actualAvgGap, targetAvgGap>>))

\* getPairKey: the two ids, the smaller first
getPairKey(island1Id, island2Id) ==
    IF island1Id < island2Id THEN <<island1Id, island2Id>> ELSE <<island2Id, island1Id>>

Gaps == 1 .. MaxGap
ConjunctionTarget(id1, id2, gap) == [island1Id |-> id1, island2Id |-> id2, targetAvgGap |-> gap]
TargetChoices ==
    {ConjunctionTarget(p[1], p[2], g) :
        p \in {<<0, 1>>, <<1, 0>>, <<0, 2>>}, g \in {Undefined} \cup {Some(t) : t \in Gaps}}
\* the statistics of one pair: none found, or some with an average gap
PairStats(total, avg) == [totalConjunctions |-> total, avgTimeBetweenConjunctions |-> avg]
PairStatsChoices == {PairStats(0, 0)} \cup {PairStats(2, a) : a \in Gaps}
\* the Map analyzeConjunctions returns, over the pairs of the islands it was given
StatsChoices ==
    UNION {[keys -> PairStatsChoices] : keys \in {{<<0, 1>>}, {<<0, 1>>, <<0, 2>>, <<1, 2>>}}}

\* "for (const target of this.conjunctionTargets)", from target k on
RECURSIVE ScoreTargets(_, _, _, _)
ScoreTargets(targets, st, k, acc) ==
    IF k > Len(targets)
    THEN acc
    ELSE LET target == targets[k]
             pairKey == getPairKey(target.island1Id, target.island2Id)
             pairError ==
                 IF pairKey \in DOMAIN st
                 THEN IF st[pairKey].totalConjunctions = 0
                      THEN Penalty
                      ELSE IF Defined(target.targetAvgGap)
                           THEN logRatioError(st[pairKey].avgTimeBetweenConjunctions,
                                              The(target.targetAvgGap))
                           ELSE ZeroError
                 ELSE Penalty
         IN  ScoreTargets(targets, st, k + 1,
                 [totalScore |-> Plus(acc.totalScore, pairError),
                  errors |-> [key \in DOMAIN acc.errors \cup {pairKey} |->
                                IF key = pairKey THEN pairError ELSE acc.errors[key]]])

ScoringInit ==
    /\ conjunctionTargets \in UNION {[1 .. n -> TargetChoices] : n \in 0 .. MaxTargets}
    /\ stats \in StatsChoices
    /\ scored = <<>>
    /\ epicycleBounds = ProportionalBounds
    /\ fixedIslands = <<>>
    /\ RunInit
    /\ CoordIdle
    /\ CoolIdle
    /\ ExtraIdle

\* the scoring loop, and the score and errorDetails.errors of the returned result
ScoreConfig ==
    /\ scored = <<>>
    /\ scored' = <<ScoreTargets(conjunctionTargets, stats, 1,
                                [totalScore |-> ZeroError, errors |-> <<>>])>>
    /\ UNCHANGED <<searchVars, coordVars, coolVars, extraVars, conjunctionTargets, stats>>

ScoringNext == ScoreConfig

SpecScoring == ScoringInit /\ [][ScoringNext]_vars

(***************************************************************************)
(* searchIncremental: one phase per island to configure.  A phase filters  *)
(* the targets, runs a search for its island with the islands configured   *)
(* so far fixed, and takes the islands of its result as the running        *)
(* configuration.  The per-phase worker filters the targets the same way   *)
(* from the base island, the fixed islands and the island it was sent.     *)
(***************************************************************************)
\* the islands to configure: none, one, or two in either order
IslandsChoices ==
    {<<>>, <<[id |-> 1, cycles |-> <<>>]>>,
     <<[id |-> 1, cycles |-> <<>>], [id |-> 2, cycles |-> <<>>]>>,
     <<[id |-> 2, cycles |-> <<>>], [id |-> 1, cycles |-> <<>>]>>}
\* targets between the base island, the islands to configure and an island 3
\* that is never configured
PhaseTargetChoices ==
    {ConjunctionTarget(p[1], p[2], g) :
        p \in {<<0, 1>>, <<2, 0>>, <<1, 2>>, <<2, 2>>, <<1, 3>>},
        g \in {Undefined, Some(1)}}
\* the cycles a phase's search can return for its island
ConfiguredCycles == {<<1>>, <<2>>}

\* "new Set([...currentIslands.map(i => i.id), currentIsland.id])"
IslandIds(islands, island) == {islands[k].id : k \in 1 .. Len(islands)} \cup {island.id}

\* every target, whatever islands it names
AllTargets(targets, islandIds) == targets

\* "this.conjunctionTargets.filter(target => islandIds.has(target.island1Id) &&
\*  islandIds.has(target.island2Id))"
RelevantTargets(targets, islandIds) ==
    SelectSeq(targets, LAMBDA target :
        target.island1Id \in islandIds /\ target.island2Id \in islandIds)

\* the keys of the Map analyzeConjunctions returns: one per pair of islands
PairKeys(islands) ==
    {getPairKey(islands[a].id, islands[b].id) :
        a \in 1 .. Len(islands), b \in 1 .. Len(islands)}
      \ {<<islands[a].id, islands[a].id>> : a \in 1 .. Len(islands)}

NoErrors == [totalScore |-> ZeroError, errors |-> <<>>]

IncrementalInit ==
    /\ allIslands \in IslandsChoices
    /\ conjunctionTargets \in UNION {[1 .. n -> PhaseTargetChoices] : n \in 0 .. MaxTargets}
    /\ incPhase = 0
    /\ currentIslands = <<baseIsland>>
    /\ relevantTargets = <<>>
    /\ phaseErrors = <<>>
    /\ incPc = "running"
    /\ incResult = <<>>
    /\ stats = <<>>
    /\ scored = <<>>
    /\ epicycleBounds = ProportionalBounds
    /\ fixedIslands = <<>>
    /\ RunInit
    /\ CoordIdle
    /\ CoolIdle
    /\ AnalyzerIdle
    /\ UtilIdle

\* one pass of "for (let phase = 0; phase < totalPhases; phase++)"
IncrementalPhase ==
    /\ incPc = "running" /\ incPhase < Len(allIslands)
    /\ LET currentIsland == allIslands[incPhase + 1]
           islandIds == IslandIds(currentIslands, currentIsland)
           relevant == RelevantTargets(conjunctionTargets, islandIds)
           fixed == IF incPhase > 0 THEN Tail(currentIslands) ELSE <<>>
       IN  \E cycles \in ConfiguredCycles, ps \in PairStatsChoices, cancel \in BOOLEAN :
             LET islands == <<baseIsland>> \o fixed
                              \o <<[currentIsland EXCEPT !.cycles = cycles]>>
                 st == [key \in PairKeys(islands) |-> ps]
                 phaseResult == [islands |-> islands,
                                 errors |-> ScoreTargets(relevant, st, 1, NoErrors).errors]
             IN  /\ relevantTargets' = relevant
                 /\ phaseErrors' = phaseResult.errors
                 /\ IF cancel
                    THEN /\ incResult' = <<phaseResult>>
                         /\ incPc' = "cancelled"
                         /\ UNCHANGED <<incPhase, currentIslands>>
                    ELSE /\ currentIslands' = phaseResult.islands
                         /\ incPhase' = incPhase + 1
                         /\ UNCHANGED <<incPc, incResult>>
    /\ UNCHANGED <<searchVars, coordVars, coolVars, scoringVars, analyzerVars, utilVars,
                   allIslands>>

\* the final evaluation, against every target, and the return
IncrementalReturn ==
    /\ incPc = "running" /\ incPhase >= Len(allIslands)
    /\ \E ps \in PairStatsChoices :
         LET st == [key \in PairKeys(currentIslands) |-> ps]
         IN  incResult' = <<[islands |-> currentIslands,
                             errors |-> ScoreTargets(conjunctionTargets, st, 1,
                                                     NoErrors).errors]>>
    /\ incPc' = "returned"
    /\ UNCHANGED <<searchVars, coordVars, coolVars, scoringVars, analyzerVars, utilVars,
                   allIslands,
                   incPhase,
                   currentIslands, relevantTargets, phaseErrors>>

IncrementalNext ==
    \/ IncrementalPhase
    \/ IncrementalReturn

SpecIncremental == IncrementalInit /\ [][IncrementalNext]_vars

(***************************************************************************)
(* ConjunctionAnalyzer.analyzeConjunctions.  Times are in the simulator's  *)
(* units, 1000 to the day; a quantity in days is an exact fraction         *)
(* <<n, d>> in lowest terms.  Infinity and null are the empty optional.    *)
(***************************************************************************)
MsPerDay == 1000
Days(ms) == Reduced(<<ms, MsPerDay>>)
RatPlus(x, y) == Reduced(<<x[1] * y[2] + y[1] * x[2], x[2] * y[2]>>)
RatScale(x, n) == Reduced(<<x[1] * n, x[2]>>)
RatOver(x, n) == Reduced(<<x[1], x[2] * n>>)
RatMax(x, y) == IF RatLess(x, y) THEN y ELSE x
Infinity == {}
Null == {}
NaN == <<0, 0>>
\* Math.min(m, x) where m is Infinity or a number
MathMin(m, x) == IF m = Infinity \/ RatLess(x, The(m)) THEN Some(x) ELSE m

\* a Conjunction: the pair, the interval within the threshold, the closest approach
Conjunction(id1, id2, startTime, endTime, minDistance) ==
    [island1Id |-> id1, island2Id |-> id2, startTime |-> startTime,
     endTime |-> endTime, minDistance |-> minDistance,
     duration |-> Days(endTime - startTime)]

\* what the motion of islands 0, 1 and 2 can be: the intervals of the pair 0-1,
\* none of them on a whole day, and at most one each of the pairs 0-2 and 1-2
MotionChoices ==
    {a \cup b \cup c :
        a \in SUBSET {Conjunction(0, 1, 500, 1500, 10), Conjunction(0, 1, 2200, 2700, 20),
                      Conjunction(1, 0, 3500, 3800, 10), Conjunction(0, 1, 4300, 4600, 30)},
        b \in {{}, {Conjunction(0, 2, 1200, 1400, 40)}},
        c \in {{}, {Conjunction(1, 2, 2600, 2900, 5)}}}

AnalyzerIslandsChoices ==
    {<<>>, <<[id |-> 0]>>, <<[id |-> 0], [id |-> 1]>>, <<[id |-> 1], [id |-> 0]>>,
     <<[id |-> 2], [id |-> 0], [id |-> 1]>>}

StartTimes == {0, MsPerDay}

\* the simulator's calculateUpcomingConjunctions(lookaheadDays, time): every
\* conjunction of its islands that is in progress at some time of the window,
\* with the start and the end it really has, also when they lie outside the window
calculateUpcomingConjunctions(m, ids, lookaheadDays, time) ==
    {c \in m : /\ c.island1Id \in ids /\ c.island2Id \in ids
               /\ c.startTime <= time + lookaheadDays * MsPerDay
               /\ c.endTime >= time}

\* the conjunctions of one call, as the array it returns
RECURSIVE InStartOrder(_)
InStartOrder(S) ==
    IF S = {}
    THEN <<>>
    ELSE LET c == CHOOSE c \in S : \A d \in S : c.startTime <= d.startTime
         IN  <<c>> \o InStartOrder(S \ {c})

\* "for (let time = startTimeMs; time < endTimeMs; time += chunkSizeMs)"
RECURSIVE CollectChunks(_, _, _, _, _)
CollectChunks(m, ids, time, endTimeMs, stepDays) ==
    IF time < endTimeMs
    THEN InStartOrder(calculateUpcomingConjunctions(m, ids, stepDays, time))
           \o CollectChunks(m, ids, time + stepDays * MsPerDay, endTimeMs, stepDays)
    ELSE <<>>

\* the windows the chunk loop hands to the detector, <<time, end of the lookahead>>
RECURSIVE ChunkWindows(_, _, _)
ChunkWindows(time, endTimeMs, stepDays) ==
    IF time < endTimeMs
    THEN <<<<time, time + stepDays * MsPerDay>>>>
           \o ChunkWindows(time + stepDays * MsPerDay, endTimeMs, stepDays)
    ELSE <<>>

\* the entry a pair starts with
InitialStats(island1Id, island2Id) ==
    [island1Id |-> island1Id, island2Id |-> island2Id,
     totalConjunctions |-> 0,
     avgConjunctionDuration |-> <<0, 1>>,
     minConjunctionDuration |-> Infinity,
     maxConjunctionDuration |-> <<0, 1>>,
     avgTimeBetweenConjunctions |-> <<0, 1>>,
     minTimeBetweenConjunctions |-> Null,
     maxTimeBetweenConjunctions |-> Null,
     avgMinDistance |-> <<0, 1>>,
     minMinDistance |-> Infinity,
     conjunctionTimes |-> <<>>,
     allConjunctions |-> <<>>]

\* the positions i < j of the double loop
PairsOf(isl) == {p \in (1 .. Len(isl)) \X (1 .. Len(isl)) : p[1] < p[2]}

\* the ids in the order given
UnsortedKey(island1Id, island2Id) == <<island1Id, island2Id>>

\* getPairKey of the analyzer: the smaller id first
analyzerPairKey(island1Id, island2Id) == getPairKey(island1Id, island2Id)

\* "stats.set(pairKey, {...})" for every i < j; a later set replaces an earlier one
InitialPairs(isl) ==
    LET keyOf(p) == analyzerPairKey(isl[p[1]].id, isl[p[2]].id)
    IN  [key \in {keyOf(p) : p \in PairsOf(isl)} |->
            LET p == CHOOSE p \in PairsOf(isl) :
                        /\ keyOf(p) = key
                        /\ \A q \in PairsOf(isl) :
                              keyOf(q) = key =>
                                 q[1] < p[1] \/ (q[1] = p[1] /\ q[2] <= p[2])
            IN  InitialStats(isl[p[1]].id, isl[p[2]].id)]

\* the body of "if (pairStats)" for one conjunction
Track(pairStats, conjunction) ==
    LET n == pairStats.totalConjunctions + 1
        dist == <<conjunction.minDistance, 1>>
    IN  [pairStats EXCEPT
            !.totalConjunctions = n,
            !.allConjunctions = Append(@, conjunction),
            !.conjunctionTimes = Append(@, conjunction.startTime),
            !.avgConjunctionDuration =
                RatOver(RatPlus(RatScale(@, n - 1), conjunction.duration), n),
            !.minConjunctionDuration = MathMin(@, conjunction.duration),
            !.maxConjunctionDuration = RatMax(@, conjunction.duration),
            !.avgMinDistance = RatOver(RatPlus(RatScale(@, n - 1), dist), n),
            !.minMinDistance = MathMin(@, dist)]

\* "for (const conjunction of allConjunctions)", from conjunction k on
RECURSIVE Process(_, _, _)
Process(st, conjunctions, k) ==
    IF k > Len(conjunctions)
    THEN st
    ELSE LET pairKey == analyzerPairKey(conjunctions[k].island1Id,
                                        conjunctions[k].island2Id)
         IN  Process(IF pairKey \in DOMAIN st
                     THEN [st EXCEPT ![pairKey] = Track(@, conjunctions[k])]
                     ELSE st,
                     conjunctions, k + 1)

\* "conjunctionTimes.sort((a, b) => a - b)"
RECURSIVE SortTimes(_)
SortTimes(times) ==
    IF times = <<>>
    THEN <<>>
    ELSE LET k == CHOOSE k \in 1 .. Len(times) :
                     \A j \in 1 .. Len(times) : times[k] <= times[j]
         IN  <<times[k]>>
               \o SortTimes([j \in 1 .. Len(times) - 1 |->
                                IF j < k THEN times[j] ELSE times[j + 1]])

RECURSIVE SumSeq(_)
SumSeq(q) == IF q = <<>> THEN 0 ELSE Head(q) + SumSeq(Tail(q))

\* the intervals from the first conjunction to each later one
SinceFirst(times) == [n \in 1 .. Len(times) - 1 |-> times[n + 1] - times[1]]

\* the intervals between conjunctions that follow each other, in time units
Between(times) == [n \in 1 .. Len(times) - 1 |-> times[n + 1] - times[n]]

\* the intervals between the conjunctions alone
OnlyBetween(times, simTimespan) == Between(times)

\* the intervals the average is taken over, in time units
Intervals(times, simTimespan) ==
    LET outsideInterval == times[1] + (simTimespan * MsPerDay - Last(times))
    IN  (IF outsideInterval > 0 THEN <<outsideInterval>> ELSE <<>>) \o Between(times)

\* the smallest and the largest interval the minimum and the maximum are taken over
MinInterval(times) ==
    CHOOSE x \in {Between(times)[n] : n \in 1 .. Len(times) - 1} :
        \A n \in 1 .. Len(times) - 1 : x <= Between(times)[n]
MaxInterval(times) ==
    CHOOSE x \in {Between(times)[n] : n \in 1 .. Len(times) - 1} :
        \A n \in 1 .. Len(times) - 1 : x >= Between(times)[n]

\* the body of "if (pairStats.totalConjunctions > 0)"
GapStats(pairStats, simTimespan) ==
    LET times == SortTimes(pairStats.conjunctionTimes)
        intervals == Intervals(times, simTimespan)
        avg == IF Len(intervals) = 0
               THEN NaN
               ELSE Reduced(<<SumSeq(intervals), MsPerDay * Len(intervals)>>)
    IN  [pairStats EXCEPT
            !.conjunctionTimes = times,
            !.avgTimeBetweenConjunctions = avg,
            !.minTimeBetweenConjunctions =
                IF pairStats.totalConjunctions > 1
                THEN Some(Days(MinInterval(times))) ELSE Some(avg),
            !.maxTimeBetweenConjunctions =
                IF pairStats.totalConjunctions > 1
                THEN Some(Days(MaxInterval(times))) ELSE Some(avg)]

analyzeConjunctions(isl, m, simDays, stepDays, start) ==
    LET ids == {isl[k].id : k \in 1 .. Len(isl)}
        allConjunctions == CollectChunks(m, ids, start, start + simDays * MsPerDay,
                                         stepDays)
        st == Process(InitialPairs(isl), allConjunctions, 1)
    IN  [key \in DOMAIN st |->
            IF st[key].totalConjunctions > 0 THEN GapStats(st[key], simDays) ELSE st[key]]

AnalyzerInit ==
    /\ analyzerIslands \in AnalyzerIslandsChoices
    /\ motion \in MotionChoices
    /\ simulationDays \in 1 .. MaxDays
    /\ timeStepDays \in 1 .. MaxDays
    /\ startTimeMs \in StartTimes
    /\ analysis = <<>>
    /\ analyzerPc = "called"
    /\ epicycleBounds = ProportionalBounds
    /\ fixedIslands = <<>>
    /\ RunInit
    /\ CoordIdle
    /\ CoolIdle
    /\ ScoringIdle
    /\ IncIdle
    /\ UtilIdle

Analyze ==
    /\ analyzerPc = "called"
    /\ analysis' = analyzeConjunctions(analyzerIslands, motion, simulationDays,
                                       timeStepDays, startTimeMs)
    /\ analyzerPc' = "returned"
    /\ UNCHANGED <<searchVars, coordVars, coolVars, scoringVars, incVars, utilVars,
                   analyzerIslands,
                   motion, simulationDays, timeStepDays, startTimeMs>>

AnalyzerNext == Analyze

SpecAnalyzer == AnalyzerInit /\ [][AnalyzerNext]_vars

(***************************************************************************)
(* timeFormat.ts.  A time is counted in hours here: the simulation time is *)
(* 1000 units to the day and 24 hours to the day, so a whole number of     *)
(* hours h is the time h * 1000 / 24, and the arithmetic of formatTime and *)
(* parseTimeString on it is exact.  A string is a sequence of characters.  *)
(***************************************************************************)
HoursPerDay == 24
DaysPerMonth == 73
DaysPerYear == 365

Digits == <<"0", "1", "2", "3", "4", "5", "6", "7", "8", "9">>
IsDigit(ch) == \E d \in 1 .. 10 : Digits[d] = ch
DigitValue(ch) == (CHOOSE d \in 1 .. 10 : Digits[d] = ch) - 1

\* Number.prototype.toString() of an integer n >= 0
RECURSIVE NumberToString(_)
NumberToString(n) ==
    IF n < 10 THEN <<Digits[n + 1]>> ELSE Append(NumberToString(n \div 10), Digits[(n % 10) + 1])

\* String.prototype.padStart(targetLength, '0'): a longer string is left as it is
RECURSIVE padStart(_, _)
padStart(str, targetLength) ==
    IF Len(str) >= targetLength THEN str ELSE padStart(<<"0">> \o str, targetLength)

\* parseInt(str, 10) of a string of digits
RECURSIVE parseInt(_)
parseInt(str) ==
    IF str = <<>> THEN 0 ELSE parseInt(SubSeq(str, 1, Len(str) - 1)) * 10 + DigitValue(Last(str))

\* formatTime(timestamp), includeHours left at its default true
formatMonths(hoursTotal) ==
    ((hoursTotal % (DaysPerYear * HoursPerDay)) \div (DaysPerMonth * HoursPerDay)) + 1

formatDays(hoursTotal) ==
    (((hoursTotal % (DaysPerYear * HoursPerDay)) \div HoursPerDay) % DaysPerMonth) + 1

formatTime(hoursTotal) ==
    LET years == hoursTotal \div (DaysPerYear * HoursPerDay)
        months == formatMonths(hoursTotal)
        days == formatDays(hoursTotal)
        hours == hoursTotal % HoursPerDay
        result == padStart(NumberToString(years), 4) \o <<"-">>
                    \o padStart(NumberToString(months), 2) \o <<"-">>
                    \o padStart(NumberToString(days), 2)
    IN  IF hours > 0 THEN result \o <<" ">> \o NumberToString(hours) \o <<"h">> ELSE result

AllDigits(str) == str # <<>> /\ \A n \in 1 .. Len(str) : IsDigit(str[n])

\* the string without its leading blanks
RECURSIVE SkipBlanks(_)
SkipBlanks(str) == IF str # <<>> /\ Head(str) = " " THEN SkipBlanks(Tail(str)) ELSE str

\* dateString.match(/^(\d{4})-(\d{2})-(\d{2})(?:\s+(\d+)h)?$/): null, or the groups
dateRegexMatch(str) ==
    IF /\ Len(str) >= 10
       /\ AllDigits(SubSeq(str, 1, 4)) /\ str[5] = "-"
       /\ AllDigits(SubSeq(str, 6, 7)) /\ str[8] = "-"
       /\ AllDigits(SubSeq(str, 9, 10))
    THEN LET rest == SubSeq(str, 11, Len(str))
             hourPart == SkipBlanks(rest)
             groups == <<SubSeq(str, 1, 4), SubSeq(str, 6, 7), SubSeq(str, 9, 10)>>
         IN  IF rest = <<>>
             THEN Some(Append(groups, <<>>))
             ELSE IF /\ Head(rest) = " "
                     /\ Len(hourPart) >= 2
                     /\ Last(hourPart) = "h"
                     /\ AllDigits(SubSeq(hourPart, 1, Len(hourPart) - 1))
                  THEN Some(Append(groups, SubSeq(hourPart, 1, Len(hourPart) - 1)))
                  ELSE Undefined
    ELSE Undefined

\* parseTimeString(dateString): null, or the time, in hours
parseTimeString(dateString) ==
    LET match == dateRegexMatch(dateString)
    IN  IF ~Defined(match)
        THEN Null
        ELSE LET year == parseInt(The(match)[1])
                 month == parseInt(The(match)[2])
                 day == parseInt(The(match)[3])
                 hours == IF The(match)[4] # <<>> THEN parseInt(The(match)[4]) ELSE 0
             IN  IF \/ year < 0 \/ month < 1 \/ month > 5 \/ day < 1
                    \/ day > DaysPerMonth \/ hours < 0 \/ hours >= HoursPerDay
                 THEN Null
                 ELSE Some((year * DaysPerYear + (month - 1) * DaysPerMonth + (day - 1))
                             * HoursPerDay + hours)

\* the times formatted: years at both ends of the four digits, the first and the
\* last day of a month and of the year, hours from none to the last
YearChoices == {0, 1, 2, 9999, 10000}
DayOfYearChoices == {0, 1, 72, 73, 364}
HourChoices == {0, 1, 12, 23}

CalendarInit ==
    /\ timestamp \in {(y * DaysPerYear + d) * HoursPerDay + h :
                         y \in YearChoices, d \in DayOfYearChoices, h \in HourChoices}
    /\ formatted = <<>>
    /\ parsed = Undefined
    /\ calendarPc = "start"
    /\ epicycleBounds = ProportionalBounds
    /\ fixedIslands = <<>>
    /\ RunInit
    /\ CoordIdle
    /\ CoolIdle
    /\ ScoringIdle
    /\ IncIdle
    /\ AnalyzerIdle
    /\ SimulatorIdle
    /\ MinimumIdle

CalendarFrame ==
    UNCHANGED <<searchVars, coordVars, coolVars, scoringVars, incVars, analyzerVars,
                simulatorVars, minimumVars, timestamp>>

FormatTime ==
    /\ calendarPc = "start"
    /\ formatted' = formatTime(timestamp)
    /\ calendarPc' = "formatted"
    /\ UNCHANGED parsed
    /\ CalendarFrame

ParseTimeString ==
    /\ calendarPc = "formatted"
    /\ parsed' = parseTimeString(formatted)
    /\ calendarPc' = "parsed"
    /\ UNCHANGED formatted
    /\ CalendarFrame

CalendarNext ==
    \/ FormatTime
    \/ ParseTimeString

SpecCalendar == CalendarInit /\ [][CalendarNext]_vars

(***************************************************************************)
(* sim.ts, SkydriftArchipelagoSimulator: the methods that change the list  *)
(* of islands.  An island is its id and its name, the name standing for    *)
(* every field but the id.                                                 *)
(***************************************************************************)
MaxIslands == 3      \* addIsland is not called on a list this long
MaxIslandId == 3     \* ids are 1 .. MaxIslandId

SimIsland(id, name) == [id |-> id, name |-> name]
SimIslandChoices == {SimIsland(id, name) : id \in 1 .. MaxIslandId, name \in {"a", "b"}}

\* the lists handed to the constructor and to setIslands: their ids are unique
IslandListChoices ==
    {<<>>, <<SimIsland(1, "a")>>, <<SimIsland(2, "b"), SimIsland(1, "a")>>}

Call(op, id) == [op |-> op, id |-> id, before |-> simIslands]

\* this.islands.findIndex(i => i.id === island.id), 0 standing for -1
findIndex(list, id) ==
    IF \E k \in 1 .. Len(list) : list[k].id = id
    THEN CHOOSE k \in 1 .. Len(list) :
            list[k].id = id /\ \A n \in 1 .. k - 1 : list[n].id # id
    ELSE 0

\* this.islands.filter(island => island.id !== islandId)
RECURSIVE filterOut(_, _)
filterOut(list, islandId) ==
    IF list = <<>>
    THEN <<>>
    ELSE IF Head(list).id # islandId
         THEN <<Head(list)>> \o filterOut(Tail(list), islandId)
         ELSE filterOut(Tail(list), islandId)

SimulatorInit ==
    /\ simIslands \in IslandListChoices
    /\ simCall = [op |-> "constructor", id |-> 0, before |-> <<>>]
    /\ timestamp = 0
    /\ formatted = <<>>
    /\ parsed = Undefined
    /\ calendarPc = "idle"
    /\ epicycleBounds = ProportionalBounds
    /\ fixedIslands = <<>>
    /\ RunInit
    /\ CoordIdle
    /\ CoolIdle
    /\ ScoringIdle
    /\ IncIdle
    /\ AnalyzerIdle
    /\ MinimumIdle

SimulatorFrame ==
    UNCHANGED <<searchVars, coordVars, coolVars, scoringVars, incVars, analyzerVars,
                calendarVars, minimumVars>>

setIslands ==
    /\ \E list \in IslandListChoices :
         /\ simIslands' = list
         /\ simCall' = Call("setIslands", 0)
    /\ SimulatorFrame

addIsland ==
    /\ Len(simIslands) < MaxIslands
    /\ \E island \in SimIslandChoices :
         /\ simIslands' = Append(simIslands, island)
         /\ simCall' = Call("addIsland", island.id)
    /\ SimulatorFrame

updateIsland ==
    /\ \E island \in SimIslandChoices :
         LET index == findIndex(simIslands, island.id)
         IN  /\ simIslands' = IF index # 0
                               THEN [simIslands EXCEPT ![index] = island]
                               ELSE simIslands
             /\ simCall' = Call("updateIsland", island.id)
    /\ SimulatorFrame

deleteIsland ==
    /\ \E islandId \in 1 .. MaxIslandId :
         /\ simIslands' = filterOut(simIslands, islandId)
         /\ simCall' = Call("deleteIsland", islandId)
    /\ SimulatorFrame

SimulatorNext ==
    \/ setIslands
    \/ addIsland
    \/ updateIsland
    \/ deleteIsland

SpecSimulator == SimulatorInit /\ [][SimulatorNext]_vars

(***************************************************************************)
(* sim.ts, findMinimumDistanceTime.  Times are JavaScript numbers, which   *)
(* are not dense: around the interval searched two neighbouring numbers    *)
(* lie one spacing apart.  A time is counted here in spacings, so it is an *)
(* integer, and a sum or quotient that falls between two numbers is        *)
(* rounded to the nearer one as the hardware does.  The precision is a     *)
(* number of its own and may be a fraction of a spacing.                   *)
(***************************************************************************)
MaxTime == 6         \* startTime and endTime are in 0 .. MaxTime
MaxDepth == 8        \* calls the stack holds before "Maximum call stack size exceeded"

\* n / d rounded to the nearest integer, n >= 0, d odd: no tie arises
RoundDiv(n, d) == (2 * n + d) \div (2 * d)

PrecisionChoices == {<<1, 2>>, <<1, 1>>, <<2, 1>>, <<3, 1>>}

\* the distance between the two islands as a function of time: with one dip
\* ("V", lowest at time c / 2) or with two ("W", at c / 2 and at c / 2 + 3)
DistanceProfiles ==
    {[kind |-> k, c |-> c] : k \in {"V", "W"}, c \in 0 .. (2 * MaxTime)}

calculateDistance(profile, t) ==
    IF profile.kind = "V"
    THEN Abs(2 * t - profile.c)
    ELSE Min2(Abs(2 * t - profile.c) + 1, Abs(2 * t - profile.c - 6))

\* "endTime - startTime <= precision"
ReachedPrecision(startTime, endTime, precision) ==
    (endTime - startTime) * precision[2] <= precision[1]

\* startTime + (endTime - startTime) / 3 and startTime + 2 * (endTime - startTime) / 3
MidTime1(startTime, endTime) == startTime + RoundDiv(endTime - startTime, 3)
MidTime2(startTime, endTime) == startTime + RoundDiv(2 * (endTime - startTime), 3)

\* (startTime + endTime) / 2: a sum that is odd falls between two numbers
\* and is rounded to either side, depending on the last bit
Midpoints(startTime, endTime) ==
    {(startTime + endTime) \div 2, (startTime + endTime + 1) \div 2}

\* the interval the function calls itself on, keeping the first two thirds
\* whatever the distances
KeepFirstThirds(profile, startTime, endTime) ==
    <<startTime, MidTime2(startTime, endTime)>>

\* the interval the function calls itself on
NextInterval(profile, startTime, endTime) ==
    LET midTime1 == MidTime1(startTime, endTime)
        midTime2 == MidTime2(startTime, endTime)
        dist1 == calculateDistance(profile, midTime1)
        dist2 == calculateDistance(profile, midTime2)
    IN  IF dist1 < dist2 THEN <<startTime, midTime2>> ELSE <<midTime1, endTime>>

MinimumInit ==
    /\ argStart \in 0 .. MaxTime
    /\ argEnd \in argStart .. MaxTime
    /\ argPrecision \in PrecisionChoices
    /\ distanceProfile \in DistanceProfiles
    /\ callStart = argStart
    /\ callEnd = argEnd
    /\ callDepth = 0
    /\ minTime = 0
    /\ minPc = "searching"
    /\ timestamp = 0
    /\ formatted = <<>>
    /\ parsed = Undefined
    /\ calendarPc = "idle"
    /\ SimulatorIdle
    /\ epicycleBounds = ProportionalBounds
    /\ fixedIslands = <<>>
    /\ RunInit
    /\ CoordIdle
    /\ CoolIdle
    /\ ScoringIdle
    /\ IncIdle
    /\ AnalyzerIdle

MinimumFrame ==
    UNCHANGED <<searchVars, coordVars, coolVars, scoringVars, incVars, analyzerVars,
                calendarVars, simulatorVars, argStart, argEnd, argPrecision,
                distanceProfile>>

\* "return (startTime + endTime) / 2", handed down through every caller
MinimumReturn ==
    /\ minPc = "searching"
    /\ ReachedPrecision(callStart, callEnd, argPrecision)
    /\ minTime' \in Midpoints(callStart, callEnd)
    /\ minPc' = "returned"
    /\ UNCHANGED <<callStart, callEnd, callDepth>>
    /\ MinimumFrame

\* "return this.findMinimumDistanceTime(...)": one more call
MinimumRecurse ==
    /\ minPc = "searching"
    /\ ~ReachedPrecision(callStart, callEnd, argPrecision)
    /\ callDepth < MaxDepth
    /\ callStart' = NextInterval(distanceProfile, callStart, callEnd)[1]
    /\ callEnd' = NextInterval(distanceProfile, callStart, callEnd)[2]
    /\ callDepth' = callDepth + 1
    /\ UNCHANGED <<minTime, minPc>>
    /\ MinimumFrame

\* the call that the stack has no room for: a RangeError leaves the function
StackOverflow ==
    /\ minPc = "searching"
    /\ ~ReachedPrecision(callStart, callEnd, argPrecision)
    /\ callDepth = MaxDepth
    /\ minPc' = "overflow"
    /\ UNCHANGED <<callStart, callEnd, callDepth, minTime>>
    /\ MinimumFrame

MinimumNext ==
    \/ MinimumReturn
    \/ MinimumRecurse
    \/ StackOverflow

\* the function is synchronous: a call that can go on does
SpecMinimum == MinimumInit /\ [][MinimumNext]_vars /\ WF_vars(MinimumNext)

(***************************************************************************)
(* Properties of one optimizeIsland run (SpecSearch).                      *)
(***************************************************************************)
\* C8: shouldCancel is called once after every evaluated configuration, in the
\* initial exploration and in the annealing; once it has returned true the run
\* is over (nothing more is evaluated) and what it returned is the best-so-far
\* result, whose score is the lowest of all scores evaluated in the run.
C8_CancelReturnsBestSoFar ==
    /\ cancelChecks = evaluations
    /\ cancelSeen =>
         /\ pc = "done"
         /\ ~ENABLED SearchNext
         /\ returned # NoResult
         /\ returned.score = SetMin(evalScores)
         /\ returned = (IF currentIteration = 0 THEN bestStartingResult ELSE searchBest)

\* a run cancelled during the annealing, after an improvement on the starting point
C8_Witness ==
    /\ cancelSeen /\ pc = "done"
    /\ currentIteration >= 2
    /\ returned.score < bestStartingResult.score

\* C9: the scores handed to the progress callback never increase from one call
\* to the next, and the returned result has the score reported last.
C9_ReportsNonIncreasing ==
    /\ \A k \in 1 .. Len(reported) - 1 : reported[k + 1] <= reported[k]
    /\ (pc = "done" /\ reported # <<>>) => returned.score = Last(reported)

\* a complete run whose reports came from all three places and went down
C9_Witness ==
    /\ pc = "done" /\ ~cancelSeen
    /\ Len(reported) >= 4
    /\ Last(reported) < reported[1]
    /\ searchBest.score < bestStartingResult.score

(***************************************************************************)
(* Properties of the configurations of a run (SpecConfig).                 *)
(***************************************************************************)
\* level j of the island lies within the bounds derived from its EpicycleBounds,
\* a proportional bound taken from the island's own level j-1
LevelInBounds(bs, cycles, j) ==
    /\ ActualMinPeriod(bs[j], cycles, j) <= Abs(cycles[j])
    /\ Abs(cycles[j]) <= ActualMaxPeriod(bs[j], cycles, j)

ConfiguredIsland(islands) == islands[Len(islands)]

\* C10: in every configuration generated or perturbed during a run, every level
\* of the island being configured has a period magnitude within its rounded
\* bounds, proportional bounds being relative to the parent level of the same
\* configuration.
C10_PeriodsWithinBounds ==
    evaluated # <<>> =>
        \A j \in 1 .. Len(ConfiguredIsland(evaluated).cycles) :
            LevelInBounds(epicycleBounds, ConfiguredIsland(evaluated).cycles, j)

\* C11: no configuration generated or perturbed during a run has an epicycle of
\* period 0, whatever bounds the search was given.
C11_NoZeroPeriod ==
    evaluated # <<>> =>
        \A j \in 1 .. Len(ConfiguredIsland(evaluated).cycles) :
            ConfiguredIsland(evaluated).cycles[j] # 0

StatedError(target, st) ==
    LET pairKey == getPairKey(target.island1Id, target.island2Id)
    IN  IF ~Defined(target.targetAvgGap)
        THEN ZeroError
        ELSE IF pairKey \notin DOMAIN st \/ st[pairKey].totalConjunctions = 0
             THEN Penalty
             ELSE logRatioError(st[pairKey].avgTimeBetweenConjunctions,
                                The(target.targetAvgGap))

RECURSIVE StatedScore(_, _, _)
StatedScore(targets, st, k) ==
    IF k > Len(targets)
    THEN ZeroError
    ELSE Plus(StatedError(targets[k], st), StatedScore(targets, st, k + 1))

\* C13: the score is the sum of the errors of the targets that define
\* targetAvgGap (the penalty 1,000,000 for a pair without conjunctions, the
\* log-ratio error otherwise), each recorded under its pair's key, and a target
\* without targetAvgGap adds nothing.
C13_ScoreIsSumOfTargetErrors ==
    scored # <<>> =>
        /\ scored[1].totalScore = StatedScore(conjunctionTargets, stats, 1)
        /\ \A k \in 1 .. Len(conjunctionTargets) :
             LET target == conjunctionTargets[k]
                 pairKey == getPairKey(target.island1Id, target.island2Id)
             IN  (/\ Defined(target.targetAvgGap)
                  /\ \A n \in k + 1 .. Len(conjunctionTargets) :
                       getPairKey(conjunctionTargets[n].island1Id,
                                  conjunctionTargets[n].island2Id) # pairKey)
                 => /\ pairKey \in DOMAIN scored[1].errors
                    /\ scored[1].errors[pairKey] = StatedError(target, stats)

\* target k defines targetAvgGap and its pair has conjunctions: the log-ratio
\* error is what the scoring loop adds for it
LogScored(k) ==
    LET target == conjunctionTargets[k]
        pairKey == getPairKey(target.island1Id, target.island2Id)
    IN  /\ Defined(target.targetAvgGap)
        /\ pairKey \in DOMAIN stats
        /\ stats[pairKey].totalConjunctions > 0

\* C14: the log-ratio error of a target is non-negative, is 0 exactly when the
\* actual average gap equals the target gap, is strictly smaller for every
\* actual gap that lies closer to the target on the same side, and is the same
\* for every actual and target gap whose ratio is the inverse; the score of the
\* result is non-negative.
C14_LogRatioErrorShape ==
    scored # <<>> =>
        /\ ~ErrorLess(scored[1].totalScore, ZeroError)
        /\ \A k \in 1 .. Len(conjunctionTargets) :
             LogScored(k) =>
                LET target == conjunctionTargets[k]
                    pairKey == getPairKey(target.island1Id, target.island2Id)
                    actual == stats[pairKey].avgTimeBetweenConjunctions
                    wanted == The(target.targetAvgGap)
                    error == logRatioError(actual, wanted)
                IN  /\ ~ErrorLess(error, ZeroError)
                    /\ (error = ZeroError) <=> (actual = wanted)
                    /\ ~ErrorLess(scored[1].totalScore, error)
                    /\ \A closer \in Gaps :
                         ((actual < closer /\ closer <= wanted)
                             \/ (wanted <= closer /\ closer < actual))
                         => ErrorLess(logRatioError(closer, wanted), error)
                    /\ \A a2 \in Gaps, t2 \in Gaps :
                         a2 * actual = t2 * wanted => logRatioError(a2, t2) = error

\* a scored target whose actual gap is below the target gap, with a gap in between
C14_Witness ==
    /\ scored # <<>>
    /\ \E k \in 1 .. Len(conjunctionTargets) :
         /\ LogScored(k)
         /\ LET target == conjunctionTargets[k]
                pairKey == getPairKey(target.island1Id, target.island2Id)
            IN  /\ stats[pairKey].avgTimeBetweenConjunctions + 1 < The(target.targetAvgGap)
                /\ scored[1].errors[pairKey] =
                     logRatioError(stats[pairKey].avgTimeBetweenConjunctions,
                                   The(target.targetAvgGap))
                /\ ErrorLess(ZeroError, scored[1].totalScore)

(***************************************************************************)
(* Properties of the per-phase fan-out coordinator (SpecPhase).            *)
(***************************************************************************)
\* an 'exit' order the main thread has posted to worker w and w has not handled
ExitPosted(w) == \E k \in 1 .. Len(inbox[w]) : inbox[w][k].type = "exit"

\* worker w has nothing to do and nothing on its way to the main thread
Quiet(w) ==
    /\ toMain[w] = <<>>
    /\ \/ wstate[w] = "dead"
       \/ wstate[w] = "idle" /\ inbox[w] = <<>>

\* the process runs on, uninterrupted, with no message or event left to handle
\* and no worker that will ever send one
Stalled ==
    /\ exited = "running"
    /\ ~sigintHandled
    /\ \A w \in Workers : Quiet(w)

\* C1: whatever workers crash or report an error, the coordinator does not wait
\* forever: it is never left running with every worker dead or idle and nothing
\* left to handle (from such a state no phase completes and the process never
\* exits by itself).
C1_NeverWaitsForever == ~Stalled

\* C2: no worker is still optimizing a phase the coordinator has completed:
\* completePhase for phase k runs only when every live worker is through with
\* phase k.
C2_NoWorkerStillInCompletedPhase ==
    \A w \in Workers : wstate[w] = "optimizing" => wphase[w] > currentPhase

\* C3: the coordinator exits with 'All workers have failed' only if no worker
\* delivered a result for the phase, in whatever order results and errors come.
C3_FailureExitOnlyIfAllFailed == exited = "all-failed" => delivered = {}

\* C5: the result completePhase selects has the lowest score among the final
\* results ('optimization-result') the workers delivered for that phase.
C5_SelectedIsBestFinal ==
    selected.phase > 0 =>
        /\ selected.finals # {}
        /\ selected.score = SetMin(selected.finals)

\* what an interrupt should save: the configured islands, with the best-so-far of
\* the phase that is running
AssembledSoFar ==
    IF phaseResults = <<>>
    THEN allConfiguredIslands
    ELSE Append(allConfiguredIslands, ConfiguredIslandOf(BestEntry(phaseResults)))

\* C6: the first SIGINT that comes after some worker has reported a result or
\* progress writes to the output file the best configuration assembled so far,
\* the best-so-far of the running phase included, also when no phase is complete.
C6_InterruptSavesBestSoFar ==
    [][(/\ ~sigintHandled /\ sigintHandled'
        /\ (phaseResults # <<>> \/ bestResult # NoPhaseResult))
       => outputFile' = AssembledSoFar]_vars

\* C7: a worker in the middle of a run to which 'exit' has been posted sees
\* shouldCancel true at its next per-iteration check: it does not evaluate a
\* configuration and then go on with its temperature schedule.
C7_WorkerObservesExit ==
    [][\A w \in Workers :
         (wstate[w] = "optimizing" /\ ExitPosted(w)) => witer'[w] <= witer[w]]_vars

(***************************************************************************)
(* Properties of the full-search fan-out coordinator (SpecFull).           *)
(***************************************************************************)
\* result b is behind result a: of a lower phase, or of the same phase with a
\* higher score
Behind(b, a) == b.phase < a.phase \/ (b.phase = a.phase /\ b.score > a.score)

\* C4: whatever progress messages, result messages and display updates come,
\* bestResult is never replaced by a result of a lower phase, nor by a result of
\* the same phase with a higher score.
C4_BestNeverReplacedByWorse ==
    [][bestResult # NoBest => ~Behind(bestResult', bestResult)]_vars

(***************************************************************************)
(* C16: perturbation changes only the island being optimized, the last of  *)
(* the configuration.  Every configuration the phase evaluates, keeps or   *)
(* returns is the base island and the fixed islands with the cycles they   *)
(* had when the phase started, followed by one more island; and a pass of  *)
(* the annealing loop leaves the array it handed to perturbConfig as it    *)
(* was: the current configuration is afterwards what it was before or the  *)
(* accepted neighbour, and the best starting configuration is untouched.   *)
(***************************************************************************)
PhaseStartIslands == <<baseIsland>> \o fixedIslands

KeepsPhaseStart(islands) ==
    islands # <<>> =>
        /\ Len(islands) = Len(PhaseStartIslands) + 1
        /\ SubSeq(islands, 1, Len(PhaseStartIslands)) = PhaseStartIslands
        /\ Last(islands).id = islandsToConfigure[1].id

C16_OnlyLastIslandMutated ==
    /\ [](/\ KeepsPhaseStart(evaluated)
          /\ KeepsPhaseStart(currentConfig)
          /\ KeepsPhaseStart(bestStartingConfig)
          /\ KeepsPhaseStart(bestIslands)
          /\ KeepsPhaseStart(returnedIslands))
    /\ [][pc = "annealing" =>
            /\ currentConfig' \in {currentConfig, evaluated'}
            /\ bestStartingConfig' = bestStartingConfig]_vars

\* a phase with a fixed island has returned, and a pass has changed the last island
C16_Witness ==
    /\ pc = "done"
    /\ fixedIslands # <<>>
    /\ returnedIslands # <<>>
    /\ evaluated # <<>>
    /\ temperature # <<InitialTemperature, 1>>
    /\ Last(evaluated).cycles # Last(bestStartingConfig).cycles
    /\ Last(returnedIslands).cycles # Last(bestStartingConfig).cycles

(***************************************************************************)
(* C17: after phase k of the per-phase coordinator the running             *)
(* configuration allConfiguredIslands is [base island, c_1, ..., c_k], one *)
(* entry per completed phase and in phase order, c_i having the id of      *)
(* islandsToConfigure[i-1], the island optimized in phase i (the islands   *)
(* to configure carry the number of their phase as id here); the file      *)
(* written when all phases are complete lists the base island and one      *)
(* entry per island to configure.                                          *)
(***************************************************************************)
InPhaseOrder(islands) ==
    \A k \in 1 .. Len(islands) :
        islands[k].id = IF k = 1 THEN baseIsland.id ELSE k - 1

LatestPhase == IF incPc = "cancelled" THEN incPhase + 1 ELSE incPhase

PhaseIds(k) == {baseIsland.id} \cup {allIslands[j].id : j \in 1 .. k}

Within(target, ids) == target.island1Id \in ids /\ target.island2Id \in ids

C15_PhaseScoresTargetsWithinItsIslands ==
    LatestPhase >= 1 =>
        /\ \A n \in 1 .. Len(relevantTargets) :
              Within(relevantTargets[n], PhaseIds(LatestPhase))
        /\ relevantTargets =
              SelectSeq(conjunctionTargets, LAMBDA t : Within(t, PhaseIds(LatestPhase)))
        /\ DOMAIN phaseErrors =
              {getPairKey(relevantTargets[n].island1Id, relevantTargets[n].island2Id) :
                 n \in 1 .. Len(relevantTargets)}

\* phase 1 of two has run with a target it scores and a target it leaves out
\* because the target names the island of phase 2
C15_Witness ==
    /\ Len(allIslands) = 2
    /\ LatestPhase = 1
    /\ Len(conjunctionTargets) = 2
    /\ Len(relevantTargets) = 1
    /\ \E n \in 1 .. 2 : /\ ~Within(conjunctionTargets[n], PhaseIds(1))
                          /\ Within(conjunctionTargets[n], PhaseIds(2))

(***************************************************************************)
(* C20: the Map analyzeConjunctions returns has one entry for every        *)
(* unordered pair of distinct islands and no other (none for no island or  *)
(* one), under the key of the two ids sorted; a pair without conjunction   *)
(* has the entry it started with, totalConjunctions 0, the averages 0, the *)
(* minimum duration and minimum distance Infinity, the minimum and maximum *)
(* gap null; a pair with a conjunction has none of the count 0, the two    *)
(* Infinity and the two null.                                              *)
(***************************************************************************)
AnalyzedIds == {analyzerIslands[k].id : k \in 1 .. Len(analyzerIslands)}

C20_OneEntryPerPairWithSentinels ==
    analyzerPc = "returned" =>
        /\ DOMAIN analysis = {p \in AnalyzedIds \X AnalyzedIds : p[1] < p[2]}
        /\ \A key \in DOMAIN analysis :
              LET e == analysis[key]
              IN  /\ {e.island1Id, e.island2Id} = {key[1], key[2]}
                  /\ e.totalConjunctions = Len(e.allConjunctions)
                  /\ e.totalConjunctions = 0 =>
                        /\ e.avgConjunctionDuration = <<0, 1>>
                        /\ e.avgTimeBetweenConjunctions = <<0, 1>>
                        /\ e.avgMinDistance = <<0, 1>>
                        /\ e.minConjunctionDuration = Infinity
                        /\ e.minMinDistance = Infinity
                        /\ e.minTimeBetweenConjunctions = Null
                        /\ e.maxTimeBetweenConjunctions = Null
                  /\ e.totalConjunctions > 0 =>
                        /\ e.minConjunctionDuration # Infinity
                        /\ e.minMinDistance # Infinity
                        /\ e.minTimeBetweenConjunctions # Null
                        /\ e.maxTimeBetweenConjunctions # Null

\* three islands given out of id order, one pair with conjunctions, one without
C20_Witness ==
    /\ analyzerPc = "returned"
    /\ Len(analyzerIslands) = 3
    /\ analysis[<<0, 1>>].totalConjunctions >= 2
    /\ analysis[<<0, 2>>].totalConjunctions = 0
    /\ analysis[<<0, 2>>].island1Id = 2

(***************************************************************************)
(* C19: what analyzeConjunctions returns for given islands, start time and *)
(* simulationDays does not depend on timeStepDays: every pair has the same *)
(* count and the same start times under every chunk size, and a            *)
(* conjunction is counted once also when it straddles a chunk boundary.    *)
(***************************************************************************)
Occurrences(conjunctions, c) ==
    Cardinality({n \in 1 .. Len(conjunctions) : conjunctions[n] = c})

C19_IndependentOfChunkSize ==
    analyzerPc = "returned" =>
        /\ \A stepDays \in 1 .. MaxDays :
              LET other == analyzeConjunctions(analyzerIslands, motion, simulationDays,
                                               stepDays, startTimeMs)
              IN  \A key \in DOMAIN analysis :
                    /\ other[key].totalConjunctions = analysis[key].totalConjunctions
                    /\ other[key].conjunctionTimes = analysis[key].conjunctionTimes
        /\ \A key \in DOMAIN analysis : \A c \in motion :
              Occurrences(analysis[key].allConjunctions, c) <= 1

(***************************************************************************)
(* C18: for every pair with a conjunction the gap statistics come from the *)
(* sorted start times.  The average gap is the mean of the wraparound gap  *)
(* first_start + (simulationDays - last_start) and of one gap per pair of  *)
(* consecutive starts; the minimum and the maximum gap are those of the    *)
(* consecutive gaps alone; with one conjunction all three are the same.    *)
(***************************************************************************)
Ascending(times) == \A n \in 1 .. Len(times) - 1 : times[n] <= times[n + 1]

ConsecutiveGaps(times) == {times[n + 1] - times[n] : n \in 1 .. Len(times) - 1}

WraparoundGap(times) == times[1] + simulationDays * MsPerDay - Last(times)

\* the mean, in days, of the consecutive gaps and of the wraparound gap if counted
MeanGap(times, wraparound) ==
    LET total == (Last(times) - times[1]) + (IF wraparound THEN WraparoundGap(times) ELSE 0)
        count == (Len(times) - 1) + (IF wraparound THEN 1 ELSE 0)
    IN  Reduced(<<total, MsPerDay * count>>)

MinMaxGap(e) ==
    LET times == e.conjunctionTimes
    IN  IF Len(times) = 1
        THEN /\ e.minTimeBetweenConjunctions = Some(e.avgTimeBetweenConjunctions)
             /\ e.maxTimeBetweenConjunctions = Some(e.avgTimeBetweenConjunctions)
        ELSE /\ \E g \in ConsecutiveGaps(times) :
                  /\ e.minTimeBetweenConjunctions = Some(Days(g))
                  /\ \A h \in ConsecutiveGaps(times) : g <= h
             /\ \E g \in ConsecutiveGaps(times) :
                  /\ e.maxTimeBetweenConjunctions = Some(Days(g))
                  /\ \A h \in ConsecutiveGaps(times) : g >= h

C18_GapStatistics ==
    analyzerPc = "returned" =>
        \A key \in DOMAIN analysis :
            LET e == analysis[key]
                times == e.conjunctionTimes
            IN  e.totalConjunctions >= 1 =>
                  /\ Len(times) = e.totalConjunctions
                  /\ Ascending(times)
                  /\ e.avgTimeBetweenConjunctions = MeanGap(times, TRUE)
                  /\ MinMaxGap(e)

\* C18 as amended: the wraparound gap is part of the average when it is positive
\* and left out when the starts span simulationDays or more.
C18_GapStatisticsPositiveWraparound ==
    analyzerPc = "returned" =>
        \A key \in DOMAIN analysis :
            LET e == analysis[key]
                times == e.conjunctionTimes
            IN  e.totalConjunctions >= 1 =>
                  /\ Len(times) = e.totalConjunctions
                  /\ Ascending(times)
                  /\ e.avgTimeBetweenConjunctions =
                        MeanGap(times, WraparoundGap(times) > 0)
                  /\ MinMaxGap(e)

\* a pair with three conjunctions, gaps that differ and a positive wraparound gap,
\* and a pair with a single conjunction
C18_Witness ==
    /\ analyzerPc = "returned"
    /\ Len(analyzerIslands) = 3
    /\ analysis[<<0, 1>>].totalConjunctions = 3
    /\ WraparoundGap(analysis[<<0, 1>>].conjunctionTimes) > 0
    /\ analysis[<<0, 1>>].minTimeBetweenConjunctions
         # analysis[<<0, 1>>].maxTimeBetweenConjunctions
    /\ analysis[<<0, 1>>].maxTimeBetweenConjunctions
         # Some(analysis[<<0, 1>>].avgTimeBetweenConjunctions)
    /\ analysis[<<1, 2>>].totalConjunctions = 1

(***************************************************************************)
(* C29: for every pair with N >= 1 counted conjunctions the wraparound gap *)
(* and the consecutive gaps sum to the simulated span, so the average gap  *)
(* is simulationDays / N, whatever startTimeMs is.                         *)
(***************************************************************************)
C29_AverageIsSpanOverCount ==
    analyzerPc = "returned" =>
        \A key \in DOMAIN analysis :
            analysis[key].totalConjunctions >= 1 =>
                analysis[key].avgTimeBetweenConjunctions =
                    Reduced(<<simulationDays, analysis[key].totalConjunctions>>)

\* C29 as amended: the average is simulationDays / N when the wraparound gap is
\* positive, and otherwise the span from the first to the last start over N - 1.
C29_AverageIsSpanOverCountIfWraparound ==
    analyzerPc = "returned" =>
        \A key \in DOMAIN analysis :
            LET e == analysis[key]
                times == e.conjunctionTimes
            IN  e.totalConjunctions >= 1 =>
                  /\ WraparoundGap(times) > 0 =>
                        e.avgTimeBetweenConjunctions =
                            Reduced(<<simulationDays, e.totalConjunctions>>)
                  /\ WraparoundGap(times) <= 0 =>
                        e.avgTimeBetweenConjunctions =
                            Reduced(<<Last(times) - times[1],
                                      MsPerDay * (e.totalConjunctions - 1)>>)

\* a start time other than 0, three conjunctions of a pair, a positive wraparound gap
C29_Witness ==
    /\ analyzerPc = "returned"
    /\ startTimeMs # 0
    /\ <<0, 1>> \in DOMAIN analysis
    /\ analysis[<<0, 1>>].totalConjunctions = 3
    /\ WraparoundGap(analysis[<<0, 1>>].conjunctionTimes) > 0
    /\ analysis[<<0, 1>>].avgTimeBetweenConjunctions = <<1, 1>>

(***************************************************************************)
(* C30: analyzeConjunctions scans exactly the window from startTimeMs to   *)
(* startTimeMs + simulationDays * 1000: the chunks handed to the detector  *)
(* follow each other without gap or overlap from the start of the window   *)
(* and the last one ends with it, and no counted conjunction lies wholly   *)
(* outside the window.                                                     *)
(***************************************************************************)
EndTimeMs == startTimeMs + simulationDays * MsPerDay

ScannedWindows == ChunkWindows(startTimeMs, EndTimeMs, timeStepDays)

C30_ScansExactlyTheWindow ==
    analyzerPc = "returned" =>
        /\ ScannedWindows # <<>>
        /\ ScannedWindows[1][1] = startTimeMs
        /\ \A n \in 1 .. Len(ScannedWindows) - 1 :
              ScannedWindows[n][2] = ScannedWindows[n + 1][1]
        /\ Last(ScannedWindows)[2] = EndTimeMs
        /\ \A key \in DOMAIN analysis :
              \A n \in 1 .. Len(analysis[key].allConjunctions) :
                 LET c == analysis[key].allConjunctions[n]
                 IN  c.startTime <= EndTimeMs /\ c.endTime >= startTimeMs

(***************************************************************************)
(* C22: parseTimeString(formatTime(t)) = t for every t that is a whole     *)
(* number of hours, in every year from year 0 on; the month formatTime     *)
(* writes is in 1..5 and the day in 1..73, and parseTimeString accepts     *)
(* the string.                                                             *)
(***************************************************************************)
C22_CalendarRoundTrip ==
    /\ calendarPc \in {"formatted", "parsed"} =>
          /\ formatMonths(timestamp) \in 1 .. 5
          /\ formatDays(timestamp) \in 1 .. DaysPerMonth
    /\ calendarPc = "parsed" => parsed = Some(timestamp)

\* the round trip for the years that four digits hold, exact arithmetic assumed
RoundTripFourDigitYears ==
    calendarPc = "parsed" /\ timestamp < 10000 * DaysPerYear * HoursPerDay
        => parsed = Some(timestamp)

(***************************************************************************)
(* C21: malformed epicycle bounds are fatal.  Bounds with a level that     *)
(* names neither kind of minimum (or of maximum), or with a proportional   *)
(* bound at level 0, never get a configuration evaluated or a result       *)
(* returned; and whenever the search throws for its bounds, a zero parent  *)
(* period under a proportional bound included, it does so before any       *)
(* configuration is evaluated and without a result.                        *)
(***************************************************************************)
MissingBound(b) ==
    \/ ~Defined(b.minPeriod) /\ ~Defined(b.minProportion)
    \/ ~Defined(b.maxPeriod) /\ ~Defined(b.maxProportion)

Proportional(b) == Defined(b.minProportion) \/ Defined(b.maxProportion)

MalformedLevels(bs) ==
    \/ \E j \in 1 .. Len(bs) : MissingBound(bs[j])
    \/ Proportional(bs[1])

C21_MalformedBoundsFatal ==
    /\ MalformedLevels(epicycleBounds) =>
          /\ pc \in {"initial", "threw"}
          /\ evaluated = <<>>
          /\ returnedIslands = <<>>
    /\ pc = "threw" => evaluated = <<>> /\ returnedIslands = <<>>

\* the first half alone: bounds malformed in themselves are refused at once
MalformedLevelsFatal ==
    MalformedLevels(epicycleBounds) =>
        /\ pc \in {"initial", "threw"}
        /\ evaluated = <<>>
        /\ returnedIslands = <<>>

(***************************************************************************)
(* C23: the ids of the simulator's islands are unique after any sequence   *)
(* of addIsland, updateIsland, deleteIsland and setIslands that starts     *)
(* from unique ids; updateIsland keeps the island's id and its place in    *)
(* the list; updateIsland and deleteIsland with an id that no island has   *)
(* leave the list as it was.                                               *)
(***************************************************************************)
UniqueIds(list) ==
    \A a, b \in 1 .. Len(list) : list[a].id = list[b].id => a = b

HasId(list, id) == \E k \in 1 .. Len(list) : list[k].id = id

\* the list after updateIsland: one island replaced in place by one of the same id
UpdatedInPlace ==
    /\ Len(simIslands) = Len(simCall.before)
    /\ \E k \in 1 .. Len(simIslands) :
         /\ simCall.before[k].id = simCall.id
         /\ simIslands[k].id = simCall.id
         /\ \A n \in 1 .. Len(simIslands) : n # k => simIslands[n] = simCall.before[n]

\* the second and the third part of C23
UpdateAndDeleteKeepTheList ==
    /\ simCall.op = "updateIsland" /\ HasId(simCall.before, simCall.id) => UpdatedInPlace
    /\ simCall.op \in {"updateIsland", "deleteIsland"} /\ ~HasId(simCall.before, simCall.id)
          => simIslands = simCall.before

C23_IslandIdsUnique ==
    /\ UniqueIds(simIslands)
    /\ UpdateAndDeleteKeepTheList

(***************************************************************************)
(* Properties of findMinimumDistanceTime (SpecMinimum).                    *)
(***************************************************************************)
\* the result lies in the interval asked for
InsideInterval == argStart <= minTime /\ minTime <= argEnd

\* twice the time at which a distance with one dip is lowest on the interval
TwiceMinimiser == Max2(2 * argStart, Min2(2 * argEnd, distanceProfile.c))

\* | minTime - minimiser | <= precision
WithinPrecision ==
    Abs(2 * minTime - TwiceMinimiser) * argPrecision[2] <= 2 * argPrecision[1]

Unimodal == distanceProfile.kind = "V"

\* the precision is at least n spacings of the times
AtLeastSpacings(n) == argPrecision[1] >= n * argPrecision[2]

FirstLowest(scores) ==
    CHOOSE k \in 1 .. Len(scores) :
        /\ \A n \in 1 .. Len(scores) : scores[k] <= scores[n]
        /\ \A n \in 1 .. k - 1 : scores[n] > scores[k]

\* C24: optimizeIsland evaluates numInitialConfigs random configurations before
\* it perturbs anything (a run cancelled earlier never perturbs), and the
\* annealing starts with the lowest-scoring of them, the first one on ties, as
\* both its current and its best state.
C24_InitialSearchThenAnnealing ==
    /\ (pc = "annealing" \/ currentIteration > 0) =>
          Len(initialScores) = NumInitialConfigs
    /\ pc = "initial" => currentIteration = 0 /\ ~Defined(neighborScore)
    /\ (pc = "annealing" /\ currentIteration = 0) =>
          /\ currentResult.score = initialScores[FirstLowest(initialScores)]
          /\ searchBest = currentResult
          /\ initialSearchIndex = FirstLowest(initialScores) - 1

\* the annealing is about to start from the first of two equally good starts
C24_Witness ==
    /\ pc = "annealing" /\ currentIteration = 0
    /\ initialScores[1] = initialScores[2]
    /\ initialSearchIndex = 0
    /\ currentResult.score = initialScores[1]

\* C25: in an annealing step a neighbour that scores no more than the current
\* state becomes the current state; one that scores more becomes it only when
\* the acceptance probability exceeds the random draw, and otherwise the
\* current state stays as it was.
C25_AcceptanceRule ==
    [][currentIteration' = currentIteration + 1 =>
          /\ Defined(neighborScore')
          /\ The(neighborScore') <= currentResult.score =>
                currentResult'.score = The(neighborScore')
          /\ The(neighborScore') > currentResult.score =>
                IF RatLess(randomDraw', acceptanceProbability')
                THEN currentResult'.score = The(neighborScore')
                ELSE currentResult' = currentResult]_vars

\* a worse neighbour has just been discarded on a draw equal to its probability
C25_Witness ==
    /\ pc = "annealing"
    /\ Defined(neighborScore)
    /\ The(neighborScore) > currentResult.score
    /\ acceptanceProbability = <<1, 2>>
    /\ randomDraw = <<1, 2>>

\* C27: from the start of the annealing on, the score of the best result is
\* never above the score of the current one; no neighbour scores below the best
\* result once its step is over; and the best result has the lowest score of
\* all configurations evaluated in the run.
C27_BestNeverAboveCurrent ==
    (pc = "annealing" \/ currentIteration > 0) =>
        /\ searchBest.score <= currentResult.score
        /\ Defined(neighborScore) => searchBest.score <= The(neighborScore)
        /\ searchBest.score = SetMin(evalScores)

\* a worse neighbour was accepted after an improvement on the starting point
C27_Witness ==
    /\ pc = "annealing"
    /\ currentIteration >= 2
    /\ searchBest.score < bestStartingResult.score
    /\ searchBest.score < currentResult.score

(***************************************************************************)
(* C28: the coordinator's counter workersRunning is never negative, and    *)
(* while a phase is under way it is the number of workers that were        *)
(* started for the phase and of which the main thread has seen neither a   *)
(* final result nor an error nor a crash, so that each worker's            *)
(* termination takes one off it, once.                                     *)
(***************************************************************************)
\* worker w's queue to the main thread holds a message of one of the types
InFlight(w, types) ==
    \E k \in 1 .. Len(toMain[w]) : toMain[w][k].type \in types

\* worker w has the order for the phase under way and the main thread has not
\* yet seen it end: it has still to take the order up, or is optimizing, or what
\* ends its run (result, error, or the first event of a crash) is on its way
Outstanding(w) ==
    \/ /\ wstate[w] = "idle"
       /\ \E k \in 1 .. Len(inbox[w]) : inbox[w][k].type = "optimize-island"
    \/ wstate[w] = "optimizing"
    \/ InFlight(w, {"optimization-result", "error", "error-event"})

C28_CounterMatchesWorkers ==
    /\ workersRunning >= 0
    /\ (exited = "running" /\ workersReady = NumWorkers) =>
          workersRunning = Cardinality({w \in Workers : Outstanding(w)})

====
